---------------------------- MODULE Spec2Model ----------------------------
(***************************************************************************)
(* AnnotaLoop: the application state provider (AppProvider), the secure   *)
(* storage wrapper (utils/secureStorage.ts) and the two update widgets     *)
(* (UpdaterBanner, AboutModal), as state machines.                         *)
(*                                                                         *)
(* Four groups of state, each with its own specification:                  *)
(*   Spec         the provider's security state over the secure store      *)
(*   SpecSettings the 'settings' blob, its write-back and migrateApiKeys   *)
(*   SpecUpd      the update banner and the About modal (SpecUpdFair adds  *)
(*                the fairness of the updater plugin)                      *)
(*   SpecErr      the error classifiers parseError / parseInstallError     *)
(***************************************************************************)
EXTENDS Integers, Sequences, FiniteSets, TLC

VARIABLES
    \* ---- secure store (plugin-store contents, as store.get sees them)
    store,
    \* ---- AppProvider security state
    security,          \* useState<SecurityState>
    securityLoaded,    \* useState(false)
    sessionUnlocked,   \* sessionStorage has 'unlocked'
    legacySecurity,    \* localStorage 'security': null, a state an older version
                       \* left, or LegacyRemoved once removeItem has run
    loadPc,            \* position of the async loadSecurity()
    loadOutcome,       \* how loadSecurityState ended: "none" | "ok" | "failed"
    saveDue,           \* the saveSecurity effect is scheduled to run
    \* ---- a caller of the secureStorage.ts wrapper
    apiLast,           \* the last wrapper call: its name, argument and result
    apiPrev,           \* the wrapper call before it
    \* ---- the 'settings' blob, AppProvider's settings state, migrateApiKeys
    blob,              \* localStorage 'settings': Null or Some(JSON value)
    settings,          \* useState<SettingsState>
    provPc,            \* AppProvider: "unmounted" | "mounted"
    settingsDue,       \* the settings persistence effect is scheduled to run
    savedSettings,     \* the in-memory value the last persistence effect wrote
    migPc,             \* migrateApiKeys: "idle" | "saving" | "done" | "failed"
    migSettings,       \* its local 'settings' object
    migIdx,            \* the provider whose saveApiKey it awaits
    migMigrated,       \* its local 'migrated' flag
    starts,            \* application starts so far
    \* ---- the error classifiers of the two update widgets
    errThrown,         \* the value a failed update operation threw
    errBanner,         \* UpdaterBanner parseError(e), once applied
    errModal,          \* AboutModal parseInstallError(e), once applied
    \* ---- the application process and the two update widgets
    appRunning,        \* FALSE once relaunch() has replaced the process
    \* UpdaterBanner
    bUpdate,           \* useState<Update | null>: "none" | "update"
    bBusy,             \* useState(false)
    bError,            \* useState<UpdateError | null>
    bProgress,         \* useState<{downloaded, total} | null>
    bDismissed,        \* useState(false)
    bCheckPc,          \* the mount effect: "unmounted" | "checking" | "done"
    bCheckResult,      \* what its check() gave: "none" | "update" | "empty" | "failed"
    bDlPc,             \* handleUpdate: "idle" | "downloading" | "relaunching"
    bDlEvents,         \* plugin events of the download: "none" | "started" | "finished"
    bDlBytes,          \* handleUpdate's local downloadedBytes
    bCalls,            \* check() and downloadAndInstall() calls so far; for the download
                       \* last started, whether it resolved and the relaunch() calls
    \* AboutModal
    aOpen,             \* the isOpen prop
    aChecking,         \* isCheckingUpdate
    aUpdateAvailable,  \* updateAvailable
    aUpdateObject,     \* updateObject: "none" | "update"
    aIsDownloading,    \* isDownloading
    aProgress,         \* downloadProgress
    aLastCheckStatus,  \* lastCheckStatus: "idle" | "success" | "error"
    aInstallError,     \* installError
    aDlPc,             \* handleInstallUpdate: "idle" | "downloading" | "relaunching"
    aDlEvents,         \* plugin events of the download
    aDlBytes,          \* handleInstallUpdate's local downloadedBytes
    aCalls,            \* as bCalls; the modal's checks are not counted
    \* ---- getSecureStore under concurrently started wrapper operations
    storeInstance,     \* the module's storeInstance: 0 (null) or a handle
    opPc,              \* each operation: "new" | "loading" | "has" | "done" | "failed"
    opHandle,          \* the handle getSecureStore returned to each operation (0: none)
    opened,            \* the Store.load calls that have returned a handle
    \* ---- AppProvider: projects, documents and theme with their localStorage keys
    projects,          \* useState<Project[]>
    documents,         \* useState<Document[]>
    isDark,            \* useState<boolean>
    lsProjects,        \* localStorage 'projects'
    lsDocuments,       \* localStorage 'documents'
    lsTheme,           \* localStorage 'theme'
    perPc,             \* the provider's first render: "unmounted" | "mounted"
    perDue             \* the persistence effects due after the last render

secVars == <<security, securityLoaded, sessionUnlocked, legacySecurity,
             loadPc, loadOutcome, saveDue>>
apiVars == <<apiLast, apiPrev>>

setVars == <<blob, settings, provPc, settingsDue, savedSettings,
             migPc, migSettings, migIdx, migMigrated, starts>>

errVars == <<errThrown, errBanner, errModal>>

bannerVars == <<bUpdate, bBusy, bError, bProgress, bDismissed, bCheckPc, bCheckResult,
                bDlPc, bDlEvents, bDlBytes, bCalls>>
aboutVars == <<aOpen, aChecking, aUpdateAvailable, aUpdateObject, aIsDownloading,
               aProgress, aLastCheckStatus, aInstallError, aDlPc, aDlEvents, aDlBytes,
               aCalls>>
updVars == <<appRunning, bannerVars, aboutVars>>

openVars == <<storeInstance, opPc, opHandle, opened>>

\* The groups added to the five above.
perVars == <<projects, documents, isDark, lsProjects, lsDocuments, lsTheme, perPc, perDue>>
moreVars == <<openVars, perVars>>

vars == <<store, secVars, apiVars, setVars, errVars, updVars, moreVars>>

\* What the actions of one group leave alone.
notSec == <<apiVars, setVars, errVars, updVars, moreVars>>
notApi == <<secVars, setVars, errVars, updVars, moreVars>>
notSet == <<secVars, apiVars, errVars, updVars, moreVars>>
notErr == <<store, secVars, apiVars, setVars, updVars, moreVars>>
notUpd == <<store, secVars, apiVars, setVars, errVars, moreVars>>
notOpen == <<store, secVars, apiVars, setVars, errVars, updVars, perVars>>
notPer == <<store, secVars, apiVars, setVars, errVars, updVars, openVars>>
\* What a banner action and an About-modal action leave alone.
notBanner == <<appRunning, aboutVars, notUpd>>
notAbout == <<appRunning, bannerVars, notUpd>>

----------------------------------------------------------------------------
(* Values                                                                  *)

\* store.get of a missing key gives null/undefined; a present value v is <<v>>.
Null == <<>>
Some(v) == <<v>>

DefaultPin == "1234"
DefaultSecret == "A7X9-B2M4-L8Q1"

\* PINs the settings UI or an older store may hold: empty, the default, a
\* custom 4-character one, a 3- and a 5-character one.
Pins == {"", DefaultPin, "5678", "123", "12345"}
Secrets == {DefaultSecret, "K3Y2-R5T6-W9Z0"}

SecurityStates == [enabled : BOOLEAN, pin : Pins, secret : Secrets, locked : BOOLEAN]

\* secureStorage.ts DEFAULT_SECURITY, and the provider's initial useState value
DEFAULT_SECURITY ==
    [enabled |-> FALSE, pin |-> DefaultPin, secret |-> DefaultSecret, locked |-> FALSE]

\* The five cloud providers migrateApiKeys walks, in its order.
MigrationProviders == <<"openai", "anthropic", "mistral", "gemini", "openrouter">>
ProviderNames == {MigrationProviders[i] : i \in 1..Len(MigrationProviders)}

KeyEnabled == <<"security_enabled", "">>
KeyPin == <<"security_pin", "">>
KeySecret == <<"security_secret", "">>
ApiKeyName(p) == <<"apikey_", p>>
BaseUrlName(p) == <<"baseurl_", p>>
\* The local providers, which carry a base URL (part_000:97-98).
LocalProviders == {"ollama", "lmstudio"}
SecurityKeys == {KeyEnabled, KeyPin, KeySecret}
StoreKeys ==
    SecurityKeys \cup {ApiKeyName(p) : p \in ProviderNames}
                 \cup {BaseUrlName(p) : p \in LocalProviders}

----------------------------------------------------------------------------
(* secureStorage.ts: security state                                        *)

\* saveSecurityState: three store.set calls; 'locked' is not written.
SaveSecurityState(st, s) ==
    [st EXCEPT ![KeyEnabled] = Some(s.enabled),
               ![KeyPin] = Some(s.pin),
               ![KeySecret] = Some(s.secret)]

\* loadSecurityState starting unlocked whatever was stored.
LoadSecurityStateUnlocked(st) ==
    IF st[KeyEnabled] = Null
    THEN DEFAULT_SECURITY
    ELSE [enabled |-> st[KeyEnabled][1],
          pin |-> IF st[KeyPin] = Null THEN DEFAULT_SECURITY.pin ELSE st[KeyPin][1],
          secret |-> IF st[KeySecret] = Null THEN DEFAULT_SECURITY.secret
                     ELSE st[KeySecret][1],
          locked |-> DEFAULT_SECURITY.locked]

\* loadSecurityState, the path on which every store call succeeded.
LoadSecurityState(st) ==
    IF st[KeyEnabled] = Null
    THEN DEFAULT_SECURITY
    ELSE [enabled |-> st[KeyEnabled][1],
          pin |-> IF st[KeyPin] = Null THEN DEFAULT_SECURITY.pin ELSE st[KeyPin][1],
          secret |-> IF st[KeySecret] = Null THEN DEFAULT_SECURITY.secret
                     ELSE st[KeySecret][1],
          locked |-> st[KeyEnabled][1]]

\* loadSecurityState whose catch gives up on what it had read: enabled and locked.
LoadSecurityStateOrLocked(st, ok) ==
    IF ok THEN LoadSecurityState(st)
    ELSE [DEFAULT_SECURITY EXCEPT !.enabled = TRUE, !.locked = TRUE]

\* loadSecurityState with its catch: a failed store call gives the defaults.
LoadSecurityStateOrDefault(st, ok) ==
    IF ok THEN LoadSecurityState(st) ELSE DEFAULT_SECURITY

----------------------------------------------------------------------------
(* AppProvider: security                                                   *)

\* part_000:162  loadedSecurity.pin && pin !== '1234' && pin.length === 4
IsPinConfigured(pin) == pin # "" /\ pin # "1234" /\ Len(pin) = 4

\* The loaded state passed on as loadSecurityState returned it (locked = enabled).
AutoLockKeepsLoaded(loaded, unlocked) ==
    loaded

\* part_000:163-168  the auto-lock decision taken on the loaded state
AutoLock(loaded, unlocked) ==
    [loaded EXCEPT !.locked = loaded.enabled /\ IsPinConfigured(loaded.pin) /\ ~unlocked]

\* What a version that kept the security state in localStorage left there,
\* and the entry once it is removed (absent, as null is).
LegacySecurityState ==
    [enabled |-> TRUE, pin |-> "9999", secret |-> "OLD1-OLD2-OLD3", locked |-> TRUE]
LegacyRemoved == <<"removed", "">>

\* What an earlier session may have left under the three security keys.
StoredEnabled == {Null, Some(TRUE), Some(FALSE)}
StoredPin == {Null} \cup {Some(p) : p \in Pins}
StoredSecret == {Null} \cup {Some(s) : s \in Secrets}

SecInit ==
    /\ store \in {[key \in StoreKeys |->
                        IF key = KeyEnabled THEN e
                        ELSE IF key = KeyPin THEN p
                        ELSE IF key = KeySecret THEN s
                        ELSE Null] :
                    e \in StoredEnabled, p \in StoredPin, s \in StoredSecret}
    /\ security = DEFAULT_SECURITY
    /\ securityLoaded = FALSE
    /\ sessionUnlocked \in BOOLEAN
    /\ legacySecurity \in {Null, Some(LegacySecurityState)}
    /\ loadPc = "start"
    /\ loadOutcome = "none"
    /\ saveDue = TRUE

\* The provider not started: the security group at rest in another specification.
SecIdle ==
    /\ security = DEFAULT_SECURITY
    /\ securityLoaded = FALSE
    /\ sessionUnlocked = FALSE
    /\ legacySecurity = Null
    /\ loadPc = "start"
    /\ loadOutcome = "none"
    /\ saveDue = TRUE

EmptyStore == [key \in StoreKeys |-> Null]

\* The legacy entry moved into the secure store before it is removed.
LoadSecurityMigrateCopies ==
    /\ UNCHANGED notSec
    /\ loadPc = "start"
    /\ loadPc' = "migrated"
    /\ legacySecurity' = IF legacySecurity = Null THEN Null ELSE LegacyRemoved
    /\ store' = IF legacySecurity = Null THEN store
                ELSE SaveSecurityState(store, legacySecurity[1])
    /\ UNCHANGED <<security, securityLoaded, sessionUnlocked, loadOutcome, saveDue>>

\* part_000:151-155  the mount effect starts loadSecurity(); the call of
\* migrateSecurityFromLocalStorage (secureStorage.ts:258-279) removes the
\* legacy localStorage entry if there is one and writes nothing (its own store
\* read, failing or not, changes no state, and its catch re-throws nothing).
LoadSecurityMigrate ==
    /\ UNCHANGED notSec
    /\ loadPc = "start"
    /\ loadPc' = "migrated"
    /\ legacySecurity' = IF legacySecurity = Null THEN Null ELSE LegacyRemoved
    /\ UNCHANGED <<store, security, securityLoaded, sessionUnlocked, loadOutcome, saveDue>>

\* part_000:158-171  loadSecurityState() returns and, in the same continuation,
\* the lock is decided and setSecurity / setSecurityLoaded(true) are called.
\* (The catch at 173-176 is unreachable: neither awaited function throws.)
LoadSecurityFinish ==
    /\ UNCHANGED notSec
    /\ loadPc = "migrated"
    /\ \E ok \in BOOLEAN :
          /\ security' = AutoLock(LoadSecurityStateOrDefault(store, ok), sessionUnlocked)
          /\ loadOutcome' = IF ok THEN "ok" ELSE "failed"
    /\ securityLoaded' = TRUE
    /\ loadPc' = "done"
    /\ saveDue' = TRUE
    /\ UNCHANGED <<store, sessionUnlocked, legacySecurity>>

\* saveSecurityState after k of its three store.set calls (k = 3: all written).
SaveSecurityPartial(st, s, k) ==
    [key \in StoreKeys |->
        IF (key = KeyEnabled /\ k >= 1) \/ (key = KeyPin /\ k >= 2) \/ (key = KeySecret /\ k >= 3)
        THEN SaveSecurityState(st, s)[key]
        ELSE st[key]]

\* The effect without its early return: the state is saved though not loaded yet.
SaveSecurityUnguarded ==
    /\ UNCHANGED notSec
    /\ saveDue
    /\ ~securityLoaded
    /\ saveDue' = FALSE
    /\ store' = SaveSecurityState(store, security)
    /\ UNCHANGED <<security, securityLoaded, sessionUnlocked, legacySecurity,
                   loadPc, loadOutcome>>

\* part_000:182-183  the effect runs and returns early: not loaded yet.
SaveSecuritySkipped ==
    /\ UNCHANGED notSec
    /\ saveDue
    /\ ~securityLoaded
    /\ saveDue' = FALSE
    /\ UNCHANGED <<store, security, securityLoaded, sessionUnlocked, legacySecurity,
                   loadPc, loadOutcome>>

\* part_000:185-192  the effect saves the current security state.
SaveSecurityEffect ==
    /\ UNCHANGED notSec
    /\ saveDue
    /\ securityLoaded
    /\ saveDue' = FALSE
    /\ store' = SaveSecurityState(store, security)
    /\ UNCHANGED <<security, securityLoaded, sessionUnlocked, legacySecurity,
                   loadPc, loadOutcome>>

\* part_000:188-190  saveSecurityState throws; the effect logs and goes on.
SaveSecurityFails ==
    /\ UNCHANGED notSec
    /\ saveDue
    /\ securityLoaded
    /\ saveDue' = FALSE
    /\ \E k \in 0..3 : store' = SaveSecurityPartial(store, security, k)
    /\ UNCHANGED <<security, securityLoaded, sessionUnlocked, legacySecurity,
                   loadPc, loadOutcome>>

\* part_000:241-244
UnlockApp ==
    /\ UNCHANGED notSec
    /\ security' = [security EXCEPT !.locked = FALSE]
    /\ sessionUnlocked' = TRUE
    /\ saveDue' = TRUE
    /\ UNCHANGED <<store, securityLoaded, legacySecurity, loadPc, loadOutcome>>

\* lockApp that leaves the session flag in place.
LockAppKeepsFlag ==
    /\ UNCHANGED notSec
    /\ security' = [security EXCEPT !.locked = TRUE]
    /\ saveDue' = TRUE
    /\ UNCHANGED <<store, securityLoaded, sessionUnlocked, legacySecurity, loadPc,
                   loadOutcome>>

\* part_000:246-249
LockApp ==
    /\ UNCHANGED notSec
    /\ security' = [security EXCEPT !.locked = TRUE]
    /\ sessionUnlocked' = FALSE
    /\ saveDue' = TRUE
    /\ UNCHANGED <<store, securityLoaded, legacySecurity, loadPc, loadOutcome>>

\* part_000:268  setSecurity handed to the settings screens: enabled, pin and
\* secret are replaced, locked is carried over by the spread.
ChangeSecuritySettings ==
    /\ UNCHANGED notSec
    /\ \E e \in BOOLEAN, p \in Pins, s \in Secrets :
          security' = [security EXCEPT !.enabled = e, !.pin = p, !.secret = s]
    /\ saveDue' = TRUE
    /\ UNCHANGED <<store, securityLoaded, sessionUnlocked, legacySecurity, loadPc, loadOutcome>>

SecNext ==
    \/ LoadSecurityMigrate
    \/ LoadSecurityFinish
    \/ SaveSecuritySkipped
    \/ SaveSecurityEffect
    \/ SaveSecurityFails
    \/ UnlockApp
    \/ LockApp
    \/ ChangeSecuritySettings

----------------------------------------------------------------------------
(* secureStorage.ts: the wrapper, one call at a time (SpecStore)           *)

\* secureStorage.ts:26-36
SaveApiKey(st, p, k) == [st EXCEPT ![ApiKeyName(p)] = Some(k)]

\* secureStorage.ts:43-52  key ?? null, and null when the store call throws
GetApiKey(st, p, ok) == IF ok THEN st[ApiKeyName(p)] ELSE Null

\* deleteApiKey that blanks the entry instead of deleting it.
DeleteApiKeyBlanks(st, p) == [st EXCEPT ![ApiKeyName(p)] = Some("")]

\* secureStorage.ts:58-68
DeleteApiKey(st, p) == [st EXCEPT ![ApiKeyName(p)] = Null]

\* secureStorage.ts:75-84
HasApiKey(st, p, ok) == IF ok THEN st[ApiKeyName(p)] # Null ELSE FALSE

\* secureStorage.ts:131-140
SaveBaseUrl(st, p, u) == [st EXCEPT ![BaseUrlName(p)] = Some(u)]

\* secureStorage.ts:147-156
GetBaseUrl(st, p, ok) == IF ok THEN st[BaseUrlName(p)] ELSE Null

\* clearSecureStorage that spares the security entries.
ClearSecureStorageKeepsSecurity(st) ==
    [key \in StoreKeys |-> IF key \in SecurityKeys THEN st[key] ELSE Null]

\* secureStorage.ts:161-171  store.clear()
ClearSecureStorage(st) == EmptyStore

\* secureStorage.ts:239-251  three store.delete calls
ClearSecurityState(st) ==
    [st EXCEPT ![KeyEnabled] = Null, ![KeyPin] = Null, ![KeySecret] = Null]

\* The arguments the caller draws from.
ClientProviders == {"openai", "mistral"}
ApiKeyValues == {"sk-1", "sk-2"}
ClientLocalProviders == {"ollama"}
BaseUrls == {"http://localhost:11434"}
ClientSecurityStates ==
    [enabled : BOOLEAN, pin : {"5678"}, secret : {DefaultSecret}, locked : BOOLEAN]

NoCall == [op |-> "none", ok |-> TRUE]

ApiIdle == apiLast = NoCall /\ apiPrev = NoCall

ApiInit == store = EmptyStore /\ ApiIdle

\* How a writing call ends: it returns; it throws at the store's set, delete or
\* clear (nothing written); it throws at the store's save() (the write is in
\* the store the next get reads).
WriteOutcomes == {"ok", "throw-at-write", "throw-at-save"}
AfterWrite(r, written) == IF r = "throw-at-write" THEN store ELSE written

\* What is kept of the call before the last one: a saveSecurityState call.
Brief(call) ==
    IF call.op = "saveSecurityState" THEN call ELSE NoCall

\* saveApiKey with a catch that logs and returns instead of re-throwing.
CallSaveApiKeySwallows ==
    /\ \E p \in ClientProviders, k \in ApiKeyValues, r \in WriteOutcomes :
          /\ apiLast' = [op |-> "saveApiKey", ok |-> TRUE, arg |-> <<p, k>>]
          /\ store' = AfterWrite(r, SaveApiKey(store, p, k))
    /\ apiPrev' = Brief(apiLast)
    /\ UNCHANGED notApi

CallSaveApiKey ==
    /\ \E p \in ClientProviders, k \in ApiKeyValues, r \in WriteOutcomes :
          /\ apiLast' = [op |-> "saveApiKey", ok |-> (r = "ok"), arg |-> <<p, k>>]
          /\ store' = AfterWrite(r, SaveApiKey(store, p, k))
    /\ apiPrev' = Brief(apiLast)
    /\ UNCHANGED notApi

CallGetApiKey ==
    /\ \E p \in ClientProviders, ok \in BOOLEAN :
          apiLast' = [op |-> "getApiKey", ok |-> ok, arg |-> p,
                      result |-> GetApiKey(store, p, ok)]
    /\ apiPrev' = Brief(apiLast)
    /\ UNCHANGED <<store, notApi>>

CallDeleteApiKey ==
    /\ \E p \in ClientProviders, r \in WriteOutcomes :
          /\ apiLast' = [op |-> "deleteApiKey", ok |-> (r = "ok"), arg |-> p]
          /\ store' = AfterWrite(r, DeleteApiKey(store, p))
    /\ apiPrev' = Brief(apiLast)
    /\ UNCHANGED notApi

CallHasApiKey ==
    /\ \E p \in ClientProviders, ok \in BOOLEAN :
          apiLast' = [op |-> "hasApiKey", ok |-> ok, arg |-> p,
                      result |-> HasApiKey(store, p, ok)]
    /\ apiPrev' = Brief(apiLast)
    /\ UNCHANGED <<store, notApi>>

CallSaveBaseUrl ==
    /\ \E p \in ClientLocalProviders, u \in BaseUrls, r \in WriteOutcomes :
          /\ apiLast' = [op |-> "saveBaseUrl", ok |-> (r = "ok"), arg |-> <<p, u>>]
          /\ store' = AfterWrite(r, SaveBaseUrl(store, p, u))
    /\ apiPrev' = Brief(apiLast)
    /\ UNCHANGED notApi

CallGetBaseUrl ==
    /\ \E p \in ClientLocalProviders, ok \in BOOLEAN :
          apiLast' = [op |-> "getBaseUrl", ok |-> ok, arg |-> p,
                      result |-> GetBaseUrl(store, p, ok)]
    /\ apiPrev' = Brief(apiLast)
    /\ UNCHANGED <<store, notApi>>

CallClearSecureStorage ==
    /\ \E r \in WriteOutcomes :
          /\ apiLast' = [op |-> "clearSecureStorage", ok |-> (r = "ok")]
          /\ store' = AfterWrite(r, ClearSecureStorage(store))
    /\ apiPrev' = Brief(apiLast)
    /\ UNCHANGED notApi

\* k: the store.set calls done when saveSecurityState throws (4: it returns).
CallSaveSecurityState ==
    /\ \E s \in ClientSecurityStates, k \in 0..4 :
          /\ apiLast' = [op |-> "saveSecurityState", ok |-> (k = 4), arg |-> s]
          /\ store' = SaveSecurityPartial(store, s, k)
    /\ apiPrev' = Brief(apiLast)
    /\ UNCHANGED notApi

CallLoadSecurityState ==
    /\ \E ok \in BOOLEAN :
          apiLast' = [op |-> "loadSecurityState", ok |-> ok,
                      result |-> LoadSecurityStateOrDefault(store, ok)]
    /\ apiPrev' = Brief(apiLast)
    /\ UNCHANGED <<store, notApi>>

\* k: the store.delete calls done when clearSecurityState throws (4: it returns).
CallClearSecurityState ==
    /\ \E k \in 0..4 :
          /\ apiLast' = [op |-> "clearSecurityState", ok |-> (k = 4)]
          /\ store' = [key \in StoreKeys |->
                          IF \/ (key = KeyEnabled /\ k >= 1)
                             \/ (key = KeyPin /\ k >= 2)
                             \/ (key = KeySecret /\ k >= 3)
                          THEN ClearSecurityState(store)[key]
                          ELSE store[key]]
    /\ apiPrev' = Brief(apiLast)
    /\ UNCHANGED notApi

StoreNext ==
    \/ CallSaveApiKey
    \/ CallGetApiKey
    \/ CallDeleteApiKey
    \/ CallHasApiKey
    \/ CallSaveBaseUrl
    \/ CallGetBaseUrl
    \/ CallClearSecureStorage
    \/ CallSaveSecurityState
    \/ CallLoadSecurityState
    \/ CallClearSecurityState

----------------------------------------------------------------------------
(* The 'settings' blob: AppProvider's settings state and migrateApiKeys    *)
(* (SpecSettings)                                                          *)

AllProviders == ProviderNames \cup LocalProviders

\* part_000:88-100  the settings when localStorage holds none
DefaultSettings ==
    [defaultProvider |-> "Mistral",
     defaultModel |-> "",
     providers |->
        [p \in AllProviders |->
            IF p = "ollama" THEN [models |-> <<>>, baseUrl |-> "http://localhost:11434"]
            ELSE IF p = "lmstudio" THEN [models |-> <<>>, baseUrl |-> "http://localhost:1234/v1"]
            ELSE [models |-> <<>>]]]

\* The plaintext key an older version kept for provider p.
KeyOf(p) == "sk-" \o p

\* A blob of an older version: the providers in 'keyed' carry an apiKey field.
LegacySettings(keyed) ==
    [DefaultSettings EXCEPT !.providers =
        [p \in AllProviders |->
            IF p \in keyed THEN [models |-> <<>>, apiKey |-> KeyOf(p)]
            ELSE DefaultSettings.providers[p]]]

\* A blob without a providers field.
NoProvidersSettings == [defaultProvider |-> "Mistral", defaultModel |-> ""]

ModelNames == {"", "mistral-small"}

\* JSON.stringify / JSON.parse of a settings value: the text is kept as the
\* value it denotes (objects with their fields, absent fields absent).
JsonStringify(v) == Some(v)
JsonParse(text) == text[1]

NoSettings == [unset |-> TRUE]

\* secureStorage.ts:103  providerConfig?.apiKey is truthy
CfgHasApiKey(cfg) == "apiKey" \in DOMAIN cfg /\ cfg.apiKey # ""

\* secureStorage.ts:108  delete providerConfig.apiKey
DeleteApiKeyField(cfg) == [f \in DOMAIN cfg \ {"apiKey"} |-> cfg[f]]

\* secureStorage.ts:101-103  the next provider, from position i on, that
\* carries a key (Len + 1: none, the loop ends).
RECURSIVE NextKeyed(_, _)
NextKeyed(s, i) ==
    IF i > Len(MigrationProviders) THEN i
    ELSE IF CfgHasApiKey(s.providers[MigrationProviders[i]]) THEN i
    ELSE NextKeyed(s, i + 1)

MaxStarts == 2

SetInit ==
    /\ blob \in {Null, JsonStringify(NoProvidersSettings)}
                 \cup {JsonStringify(LegacySettings(keyed)) : keyed \in SUBSET ProviderNames}
    /\ settings = NoSettings
    /\ provPc = "unmounted"
    /\ settingsDue = FALSE
    /\ savedSettings = NoSettings
    /\ migPc = "idle"
    /\ migSettings = NoSettings
    /\ migIdx = 0
    /\ migMigrated = FALSE
    /\ starts = 1

SetIdle ==
    /\ blob = Null
    /\ settings = NoSettings
    /\ provPc = "unmounted"
    /\ settingsDue = FALSE
    /\ savedSettings = NoSettings
    /\ migPc = "idle"
    /\ migSettings = NoSettings
    /\ migIdx = 0
    /\ migMigrated = FALSE
    /\ starts = 1

\* part_000:86-101  the useState initializer, at the provider's first render;
\* the persistence effect is scheduled for after the mount.
ProviderStart ==
    /\ provPc = "unmounted"
    /\ provPc' = "mounted"
    /\ settings' = IF blob = Null THEN DefaultSettings ELSE JsonParse(blob)
    /\ settingsDue' = TRUE
    /\ UNCHANGED <<store, blob, savedSettings, migPc, migSettings, migIdx, migMigrated, starts>>
    /\ UNCHANGED notSet

\* part_000:146-148  localStorage.setItem('settings', JSON.stringify(settings))
PersistSettings ==
    /\ provPc = "mounted"
    /\ settingsDue
    /\ blob' = JsonStringify(settings)
    /\ savedSettings' = settings
    /\ settingsDue' = FALSE
    /\ UNCHANGED <<store, settings, provPc, migPc, migSettings, migIdx, migMigrated, starts>>
    /\ UNCHANGED notSet

\* part_000:269  setSettings from a settings screen: another field than the
\* providers' keys changes, the rest is carried over.
SetSettings ==
    /\ provPc = "mounted"
    /\ \E m \in ModelNames : settings' = [settings EXCEPT !.defaultModel = m]
    /\ settingsDue' = TRUE
    /\ UNCHANGED <<store, blob, provPc, savedSettings, migPc, migSettings, migIdx,
                   migMigrated, starts>>
    /\ UNCHANGED notSet

\* secureStorage.ts:90-105  migrateApiKeys is called (once per start): it reads
\* and parses the blob and runs up to its first await, the saveApiKey of the
\* first provider that carries a key; with no blob, no providers field or no
\* key it returns.
MigrateStart ==
    /\ migPc = "idle"
    /\ IF blob = Null \/ "providers" \notin DOMAIN JsonParse(blob)
       THEN /\ migPc' = "done"
            /\ UNCHANGED <<migSettings, migIdx>>
       ELSE /\ migSettings' = JsonParse(blob)
            /\ migIdx' = NextKeyed(JsonParse(blob), 1)
            /\ migPc' = IF NextKeyed(JsonParse(blob), 1) > Len(MigrationProviders)
                        THEN "done" ELSE "saving"
    /\ migMigrated' = FALSE
    /\ UNCHANGED <<store, blob, settings, provPc, settingsDue, savedSettings, starts>>
    /\ UNCHANGED notSet

\* The settings object with provider p's apiKey field left in place.
WithoutKeyKept(s, p) == s

\* The settings object once provider p's apiKey field is deleted.
WithoutKey(s, p) ==
    [s EXCEPT !.providers[p] = DeleteApiKeyField(s.providers[p])]

\* secureStorage.ts:105-119  the awaited saveApiKey returns: the field is
\* deleted, the loop runs on to the next provider that carries a key, and
\* after the last one the blob is rewritten from the local object.
MigrateSaveReturns ==
    /\ migPc = "saving"
    /\ LET p == MigrationProviders[migIdx]
           s == WithoutKey(migSettings, p)
           j == NextKeyed(s, migIdx + 1)
       IN  /\ store' = SaveApiKey(store, p, migSettings.providers[p].apiKey)
           /\ migSettings' = s
           /\ migIdx' = j
           /\ IF j > Len(MigrationProviders)
              THEN /\ blob' = JsonStringify(s)
                   /\ migPc' = "done"
              ELSE UNCHANGED <<blob, migPc>>
    /\ migMigrated' = TRUE
    /\ UNCHANGED <<settings, provPc, settingsDue, savedSettings, starts>>
    /\ UNCHANGED notSet

\* The catch rewriting the blob from the local copy, the failed key's field deleted.
MigrateSaveThrowsRewrites ==
    /\ migPc = "saving"
    /\ \E r \in {"throw-at-write", "throw-at-save"} :
          store' = AfterWrite(r, SaveApiKey(store, MigrationProviders[migIdx],
                                  migSettings.providers[MigrationProviders[migIdx]].apiKey))
    /\ migPc' = "failed"
    /\ blob' = JsonStringify(WithoutKey(migSettings, MigrationProviders[migIdx]))
    /\ UNCHANGED <<settings, provPc, settingsDue, savedSettings, migSettings,
                   migIdx, migMigrated, starts>>
    /\ UNCHANGED notSet

\* secureStorage.ts:120-123  the awaited saveApiKey throws: logged, re-thrown;
\* the blob is not rewritten.
MigrateSaveThrows ==
    /\ migPc = "saving"
    /\ \E r \in {"throw-at-write", "throw-at-save"} :
          store' = AfterWrite(r, SaveApiKey(store, MigrationProviders[migIdx],
                                  migSettings.providers[MigrationProviders[migIdx]].apiKey))
    /\ migPc' = "failed"
    /\ UNCHANGED <<blob, settings, provPc, settingsDue, savedSettings, migSettings,
                   migIdx, migMigrated, starts>>
    /\ UNCHANGED notSet

\* The application is closed and started again: localStorage and the secure
\* store stay, the provider's state and a migration under way are gone. (The
\* startup call of migrateApiKeys and the persistence effect of the last
\* render have run before a window can close.)
Restart ==
    /\ starts < MaxStarts
    /\ provPc = "mounted"
    /\ migPc # "idle"
    /\ ~settingsDue
    /\ starts' = starts + 1
    /\ provPc' = "unmounted"
    /\ settings' = NoSettings
    /\ migPc' = "idle"
    /\ migSettings' = NoSettings
    /\ migIdx' = 0
    /\ migMigrated' = FALSE
    /\ UNCHANGED <<store, blob, settingsDue, savedSettings>>
    /\ UNCHANGED notSet

\* secureStorage.ts:88-90  migrateApiKeys is called again, at the next start,
\* after a run that returned; nothing else has written in between.
MigrateAgain ==
    /\ migPc = "done"
    /\ starts < MaxStarts
    /\ starts' = starts + 1
    /\ migPc' = "idle"
    /\ migSettings' = NoSettings
    /\ migIdx' = 0
    /\ migMigrated' = FALSE
    /\ UNCHANGED <<store, blob, settings, provPc, settingsDue, savedSettings>>
    /\ UNCHANGED notSet

\* migrateApiKeys on its own, run after run.
MigrateNext ==
    \/ MigrateStart
    \/ MigrateSaveReturns
    \/ MigrateSaveThrows
    \/ MigrateAgain

SettingsNext ==
    \/ ProviderStart
    \/ PersistSettings
    \/ SetSettings
    \/ MigrateStart
    \/ MigrateSaveReturns
    \/ MigrateSaveThrows
    \/ Restart

----------------------------------------------------------------------------
(* The error classifiers: UpdaterBanner parseError, AboutModal             *)
(* parseInstallError (SpecErr)                                             *)

\* String.prototype.includes: pat occurs in msg, case-sensitively.
Includes(msg, pat) ==
    \E i \in 1..(Len(msg) - Len(pat) + 1) : SubSeq(msg, i, i + Len(pat) - 1) = pat

\* e?.message ?? String(e): an Error's message, a thrown string itself, and
\* 'undefined' for a thrown undefined.
RawMessage(e) ==
    IF e.kind = "undefined" THEN "undefined" ELSE e.text

BannerDetailLimit == 100
ModalDetailLimit == 80

\* UpdaterBanner.tsx:32-93 with 'connection' left out of the network test.
ParseErrorNoConnection(e) ==
    LET rawMessage == RawMessage(e) IN
    IF Includes(rawMessage, "network") \/ Includes(rawMessage, "fetch")
    THEN [message |-> "Network Error",
          details |-> "Could not connect to the update server.",
          troubleshooting |-> <<"Check your internet connection",
                                "Try disabling VPN or proxy",
                                "Firewall may be blocking the connection">>]
    ELSE IF Includes(rawMessage, "signature") \/ Includes(rawMessage, "verify")
    THEN [message |-> "Signature Verification Failed",
          details |-> "The update package could not be verified.",
          troubleshooting |-> <<"The update file may be corrupted",
                                "Try again in a few minutes",
                                "Download manually from GitHub releases">>]
    ELSE IF \/ Includes(rawMessage, "permission")
            \/ Includes(rawMessage, "access denied")
            \/ Includes(rawMessage, "EPERM")
    THEN [message |-> "Permission Denied",
          details |-> "Cannot write to application directory.",
          troubleshooting |-> <<"Close other instances of the app",
                                "Run as administrator (Windows)",
                                "Check disk space and permissions">>]
    ELSE IF Includes(rawMessage, "relaunch") \/ Includes(rawMessage, "restart")
    THEN [message |-> "Restart Failed",
          details |-> "Update installed but app restart failed.",
          troubleshooting |-> <<"Manually close and reopen the app",
                                "The update will apply on next launch">>]
    ELSE [message |-> "Update Failed",
          details |-> IF Len(rawMessage) > BannerDetailLimit
                      THEN SubSeq(rawMessage, 1, BannerDetailLimit) \o "..."
                      ELSE rawMessage,
          troubleshooting |-> <<"Try again in a few minutes",
                                "Check your internet connection",
                                "Download manually from GitHub releases">>]

\* UpdaterBanner.tsx:32-93
ParseError(e) ==
    LET rawMessage == RawMessage(e) IN
    IF \/ Includes(rawMessage, "network")
       \/ Includes(rawMessage, "fetch")
       \/ Includes(rawMessage, "connection")
    THEN [message |-> "Network Error",
          details |-> "Could not connect to the update server.",
          troubleshooting |-> <<"Check your internet connection",
                                "Try disabling VPN or proxy",
                                "Firewall may be blocking the connection">>]
    ELSE IF Includes(rawMessage, "signature") \/ Includes(rawMessage, "verify")
    THEN [message |-> "Signature Verification Failed",
          details |-> "The update package could not be verified.",
          troubleshooting |-> <<"The update file may be corrupted",
                                "Try again in a few minutes",
                                "Download manually from GitHub releases">>]
    ELSE IF \/ Includes(rawMessage, "permission")
            \/ Includes(rawMessage, "access denied")
            \/ Includes(rawMessage, "EPERM")
    THEN [message |-> "Permission Denied",
          details |-> "Cannot write to application directory.",
          troubleshooting |-> <<"Close other instances of the app",
                                "Run as administrator (Windows)",
                                "Check disk space and permissions">>]
    ELSE IF Includes(rawMessage, "relaunch") \/ Includes(rawMessage, "restart")
    THEN [message |-> "Restart Failed",
          details |-> "Update installed but app restart failed.",
          troubleshooting |-> <<"Manually close and reopen the app",
                                "The update will apply on next launch">>]
    ELSE [message |-> "Update Failed",
          details |-> IF Len(rawMessage) > BannerDetailLimit
                      THEN SubSeq(rawMessage, 1, BannerDetailLimit) \o "..."
                      ELSE rawMessage,
          troubleshooting |-> <<"Try again in a few minutes",
                                "Check your internet connection",
                                "Download manually from GitHub releases">>]

\* part_000:370-402
ParseInstallError(e) ==
    LET rawMessage == RawMessage(e) IN
    IF \/ Includes(rawMessage, "network")
       \/ Includes(rawMessage, "fetch")
       \/ Includes(rawMessage, "connection")
    THEN [message |-> "Network Error",
          details |-> "Could not download the update.",
          tips |-> <<"Check your internet connection", "Try disabling VPN or proxy">>]
    ELSE IF Includes(rawMessage, "signature") \/ Includes(rawMessage, "verify")
    THEN [message |-> "Verification Failed",
          details |-> "Update package could not be verified.",
          tips |-> <<"Try again in a few minutes", "Download from GitHub instead">>]
    ELSE IF Includes(rawMessage, "permission") \/ Includes(rawMessage, "EPERM")
    THEN [message |-> "Permission Denied",
          details |-> "Cannot write to application directory.",
          tips |-> <<"Close other instances", "Check disk permissions">>]
    ELSE [message |-> "Install Failed",
          details |-> IF Len(rawMessage) > ModalDetailLimit
                      THEN SubSeq(rawMessage, 1, ModalDetailLimit) \o "..."
                      ELSE rawMessage,
          tips |-> <<"Try again later", "Download from GitHub releases">>]

\* The message texts: the words the classifiers look for, look-alikes in
\* another case, other words, and fillers around the two detail limits.
Fragments ==
    {"network", "fetch", "connection", "signature", "verify", "permission",
     "access denied", "EPERM", "relaunch", "restart",
     "Network", "eperm", "disk full", ""}

RECURSIVE Filler(_)
Filler(n) == IF n = 0 THEN "" ELSE "x" \o Filler(n - 1)

FillerLengths ==
    {ModalDetailLimit - 1, ModalDetailLimit, ModalDetailLimit + 1,
     BannerDetailLimit - 1, BannerDetailLimit, BannerDetailLimit + 1}

MaxFragments == 2

\* The texts made of up to n fragments.
RECURSIVE Texts(_)
Texts(n) ==
    IF n = 0 THEN {""}
    ELSE Texts(n - 1) \cup {a \o " " \o b : a \in Texts(n - 1), b \in Fragments}

Messages ==
    Texts(MaxFragments)
        \cup {Filler(n) : n \in FillerLengths}
        \cup {Filler(n) \o b : n \in FillerLengths, b \in Fragments}

ThrownValues ==
    {[kind |-> "Error", text |-> m] : m \in Messages}
        \cup {[kind |-> "string", text |-> m] : m \in {"network", "disk full", Filler(101)}}
        \cup {[kind |-> "undefined"]}

NoResult == [message |-> "(none)"]

ErrInit ==
    /\ errThrown \in ThrownValues
    /\ errBanner = NoResult
    /\ errModal = NoResult

ErrIdle ==
    /\ errThrown = [kind |-> "undefined"]
    /\ errBanner = NoResult
    /\ errModal = NoResult

\* UpdaterBanner.tsx:136  setError(parseError(e))
BannerParseError ==
    /\ errBanner = NoResult
    /\ errBanner' = ParseError(errThrown)
    /\ UNCHANGED <<errThrown, errModal>>
    /\ UNCHANGED notErr

\* part_000:443  setInstallError(parseInstallError(error))
ModalParseInstallError ==
    /\ errModal = NoResult
    /\ errModal' = ParseInstallError(errThrown)
    /\ UNCHANGED <<errThrown, errBanner>>
    /\ UNCHANGED notErr

ErrNext ==
    \/ BannerParseError
    \/ ModalParseInstallError

----------------------------------------------------------------------------
(* The update widgets: UpdaterBanner and AboutModal over the updater       *)
(* plugin (SpecUpd, SpecUpdFair)                                           *)

NoProgress == Null

\* What downloadAndInstall reports: a content length (0: the event carries
\* none) and chunks of one unit, at most MaxChunks of them.
ContentLength == 2
ContentLengths == {0, ContentLength}
ChunkLength == 1
MaxChunks == 1

\* The downloads one widget may start.
MaxDownloads == 2

\* What a failing downloadAndInstall throws.
DownloadErrors ==
    {[kind |-> "Error", text |-> "network unreachable"],
     [kind |-> "string", text |-> "restart the installer"]}

\* UpdaterBanner.tsx:127-131
BannerInstalledError ==
    [message |-> "Update Installed",
     details |-> "Please restart the app manually to complete the update.",
     troubleshooting |-> <<"Close and reopen the application">>]

\* part_000:435-439
ModalInstalledError ==
    [message |-> "Update Installed",
     details |-> "Please restart the app manually.",
     tips |-> <<"Close and reopen the application">>]

NoCalls == [check |-> 0, download |-> 0, resolved |-> 0, relaunch |-> 0]

BannerInit ==
    /\ bUpdate = "none"
    /\ bBusy = FALSE
    /\ bError = NoResult
    /\ bProgress = NoProgress
    /\ bDismissed = FALSE
    /\ bCheckPc = "unmounted"
    /\ bCheckResult = "none"
    /\ bDlPc = "idle"
    /\ bDlEvents = "none"
    /\ bDlBytes = 0
    /\ bCalls = NoCalls

AboutInit ==
    /\ aOpen = FALSE
    /\ aChecking = FALSE
    /\ aUpdateAvailable = FALSE
    /\ aUpdateObject = "none"
    /\ aIsDownloading = FALSE
    /\ aProgress = NoProgress
    /\ aLastCheckStatus = "idle"
    /\ aInstallError = NoResult
    /\ aDlPc = "idle"
    /\ aDlEvents = "none"
    /\ aDlBytes = 0
    /\ aCalls = NoCalls

UpdInit == appRunning = TRUE /\ BannerInit /\ AboutInit

UpdIdle == UpdInit

\* ---- UpdaterBanner

\* UpdaterBanner.tsx:153  the banner renders something
BannerVisible == ~bDismissed /\ bUpdate # "none"

\* UpdaterBanner.tsx:20-23  the mount effect calls check()
BannerMount ==
    /\ appRunning
    /\ bCheckPc = "unmounted"
    /\ bCheckPc' = "checking"
    /\ bCalls' = [bCalls EXCEPT !.check = @ + 1]
    /\ UNCHANGED <<bUpdate, bBusy, bError, bProgress, bDismissed, bCheckResult,
                   bDlPc, bDlEvents, bDlBytes>>
    /\ UNCHANGED notBanner

\* UpdaterBanner.tsx:23-24  check() returns an update or null
BannerCheckReturns ==
    /\ appRunning
    /\ bCheckPc = "checking"
    /\ \E u \in {"update", "none"} :
          /\ bUpdate' = IF u # "none" THEN u ELSE bUpdate
          /\ bCheckResult' = IF u # "none" THEN "update" ELSE "empty"
    /\ bCheckPc' = "done"
    /\ UNCHANGED <<bBusy, bError, bProgress, bDismissed, bDlPc, bDlEvents, bDlBytes, bCalls>>
    /\ UNCHANGED notBanner

\* check() throws and the failure is shown: the banner gets an update to render
\* and an error.
BannerCheckThrowsShown ==
    /\ appRunning
    /\ bCheckPc = "checking"
    /\ bCheckPc' = "done"
    /\ bCheckResult' = "failed"
    /\ bUpdate' = "update"
    /\ bError' = BannerInstalledError
    /\ UNCHANGED <<bBusy, bProgress, bDismissed, bDlPc, bDlEvents, bDlBytes, bCalls>>
    /\ UNCHANGED notBanner

\* UpdaterBanner.tsx:25-28  check() throws: logged, nothing else
BannerCheckThrows ==
    /\ appRunning
    /\ bCheckPc = "checking"
    /\ bCheckPc' = "done"
    /\ bCheckResult' = "failed"
    /\ UNCHANGED <<bUpdate, bBusy, bError, bProgress, bDismissed, bDlPc, bDlEvents,
                   bDlBytes, bCalls>>
    /\ UNCHANGED notBanner

\* UpdaterBanner.tsx:95-105  handleUpdate up to its await
HandleUpdate ==
    /\ bUpdate # "none"
    /\ bBusy' = TRUE
    /\ bError' = NoResult
    /\ bProgress' = NoProgress
    /\ bDlPc' = "downloading"
    /\ bDlEvents' = "none"
    /\ bDlBytes' = 0
    /\ bCalls' = [bCalls EXCEPT !.download = @ + 1, !.resolved = 0, !.relaunch = 0]
    /\ UNCHANGED <<bUpdate, bDismissed, bCheckPc, bCheckResult>>
    /\ UNCHANGED notBanner

\* 'Update now' without disabled={busy}.
BannerClickUpdateWhileBusy ==
    /\ appRunning
    /\ BannerVisible /\ bError = NoResult /\ bProgress = NoProgress
    /\ bCalls.download < MaxDownloads
    /\ HandleUpdate

\* UpdaterBanner.tsx:244-246  'Update now', in the normal view, unless busy
BannerClickUpdate ==
    /\ appRunning
    /\ BannerVisible /\ bError = NoResult /\ bProgress = NoProgress
    /\ ~bBusy
    /\ bCalls.download < MaxDownloads
    /\ HandleUpdate

\* UpdaterBanner.tsx:142-145, 182-183  'Retry', in the error view
BannerClickRetry ==
    /\ appRunning
    /\ BannerVisible /\ bError # NoResult
    /\ bCalls.download < MaxDownloads
    /\ HandleUpdate

\* 'Dismiss' that also gives up the download in flight.
BannerDismissAborts ==
    /\ appRunning
    /\ BannerVisible /\ (bError # NoResult \/ bProgress = NoProgress)
    /\ bDismissed' = TRUE
    /\ bDlPc' = "idle"
    /\ bBusy' = FALSE
    /\ UNCHANGED <<bUpdate, bError, bProgress, bCheckPc, bCheckResult,
                   bDlEvents, bDlBytes, bCalls>>
    /\ UNCHANGED notBanner

\* UpdaterBanner.tsx:165, 259  'Dismiss', in the error and the normal view
BannerDismiss ==
    /\ appRunning
    /\ BannerVisible /\ (bError # NoResult \/ bProgress = NoProgress)
    /\ bDismissed' = TRUE
    /\ UNCHANGED <<bUpdate, bBusy, bError, bProgress, bCheckPc, bCheckResult,
                   bDlPc, bDlEvents, bDlBytes, bCalls>>
    /\ UNCHANGED notBanner

\* UpdaterBanner.tsx:106-110  the 'Started' event
BannerDlStarted ==
    /\ appRunning
    /\ bDlPc = "downloading" /\ bDlEvents = "none"
    /\ bDlEvents' = "started"
    /\ \E len \in ContentLengths :
          bProgress' = IF len # 0 THEN Some([downloaded |-> 0, total |-> len])
                       ELSE bProgress
    /\ UNCHANGED <<bUpdate, bBusy, bError, bDismissed, bCheckPc, bCheckResult,
                   bDlPc, bDlBytes, bCalls>>
    /\ UNCHANGED notBanner

\* UpdaterBanner.tsx:111-116  a 'Progress' event
BannerDlProgress ==
    /\ appRunning
    /\ bDlPc = "downloading" /\ bDlEvents = "started"
    /\ bDlBytes < MaxChunks * ChunkLength
    /\ bDlBytes' = bDlBytes + ChunkLength
    /\ \E len \in ContentLengths :
          bProgress' = IF len # 0
                       THEN Some([downloaded |-> bDlBytes + ChunkLength, total |-> len])
                       ELSE bProgress
    /\ UNCHANGED <<bUpdate, bBusy, bError, bDismissed, bCheckPc, bCheckResult,
                   bDlPc, bDlEvents, bCalls>>
    /\ UNCHANGED notBanner

\* UpdaterBanner.tsx:117-119  the 'Finished' event
BannerDlFinished ==
    /\ appRunning
    /\ bDlPc = "downloading" /\ bDlEvents = "started"
    /\ bDlEvents' = "finished"
    /\ bProgress' = NoProgress
    /\ UNCHANGED <<bUpdate, bBusy, bError, bDismissed, bCheckPc, bCheckResult,
                   bDlPc, bDlBytes, bCalls>>
    /\ UNCHANGED notBanner

\* downloadAndInstall resolves and relaunch is not called: the banner is freed.
BannerDlResolvedNoRelaunch ==
    /\ appRunning
    /\ bDlPc = "downloading" /\ bDlEvents = "finished"
    /\ bDlPc' = "idle"
    /\ bBusy' = FALSE
    /\ bCalls' = [bCalls EXCEPT !.resolved = 1]
    /\ UNCHANGED <<bUpdate, bError, bProgress, bDismissed, bCheckPc, bCheckResult,
                   bDlEvents, bDlBytes>>
    /\ UNCHANGED notBanner

\* UpdaterBanner.tsx:105, 122-124  downloadAndInstall resolves; relaunch() is
\* called in the same continuation
BannerDlResolved ==
    /\ appRunning
    /\ bDlPc = "downloading" /\ bDlEvents = "finished"
    /\ bDlPc' = "relaunching"
    /\ bCalls' = [bCalls EXCEPT !.resolved = 1, !.relaunch = 1]
    /\ UNCHANGED <<bUpdate, bBusy, bError, bProgress, bDismissed, bCheckPc, bCheckResult,
                   bDlEvents, bDlBytes>>
    /\ UNCHANGED notBanner

\* downloadAndInstall throws and the banner starts it again by itself.
BannerDlThrowsRetries ==
    /\ appRunning
    /\ bDlPc = "downloading"
    /\ bCalls.download < MaxDownloads
    /\ bDlEvents' = "none"
    /\ bDlBytes' = 0
    /\ bProgress' = NoProgress
    /\ bCalls' = [bCalls EXCEPT !.download = @ + 1]
    /\ UNCHANGED <<bUpdate, bBusy, bError, bDismissed, bCheckPc, bCheckResult, bDlPc>>
    /\ UNCHANGED notBanner

\* UpdaterBanner.tsx:134-139  downloadAndInstall throws
BannerDlThrows ==
    /\ appRunning
    /\ bDlPc = "downloading"
    /\ \E e \in DownloadErrors : bError' = ParseError(e)
    /\ bBusy' = FALSE
    /\ bProgress' = NoProgress
    /\ bDlPc' = "idle"
    /\ UNCHANGED <<bUpdate, bDismissed, bCheckPc, bCheckResult, bDlEvents, bDlBytes, bCalls>>
    /\ UNCHANGED notBanner

\* UpdaterBanner.tsx:124  relaunch() takes effect: the process is replaced
BannerRelaunched ==
    /\ appRunning
    /\ bDlPc = "relaunching"
    /\ appRunning' = FALSE
    /\ UNCHANGED <<bannerVars, aboutVars>>
    /\ UNCHANGED notUpd

\* The inner catch handing the relaunch error to the classifier like the outer one.
BannerRelaunchThrowsClassified ==
    /\ appRunning
    /\ bDlPc = "relaunching"
    /\ \E e \in DownloadErrors : bError' = ParseError(e)
    /\ bBusy' = FALSE
    /\ bDlPc' = "idle"
    /\ UNCHANGED <<bUpdate, bProgress, bDismissed, bCheckPc, bCheckResult, bDlEvents,
                   bDlBytes, bCalls>>
    /\ UNCHANGED notBanner

\* UpdaterBanner.tsx:125-133  relaunch() throws
BannerRelaunchThrows ==
    /\ appRunning
    /\ bDlPc = "relaunching"
    /\ bError' = BannerInstalledError
    /\ bBusy' = FALSE
    /\ bDlPc' = "idle"
    /\ UNCHANGED <<bUpdate, bProgress, bDismissed, bCheckPc, bCheckResult, bDlEvents,
                   bDlBytes, bCalls>>
    /\ UNCHANGED notBanner

\* ---- AboutModal

\* part_000:459, 544-657  which view of the update section is on screen
AboutView ==
    IF ~aOpen THEN "closed"
    ELSE IF aInstallError # NoResult THEN "installError"
    ELSE IF aUpdateAvailable THEN "updateAvailable"
    ELSE IF aLastCheckStatus = "error" THEN "checkFailed"
    ELSE IF aLastCheckStatus = "success" THEN "upToDate"
    ELSE "idle"

\* The parent sets isOpen.
AboutOpen ==
    /\ appRunning
    /\ ~aOpen
    /\ aOpen' = TRUE
    /\ UNCHANGED <<aChecking, aUpdateAvailable, aUpdateObject, aIsDownloading, aProgress,
                   aLastCheckStatus, aInstallError, aDlPc, aDlEvents, aDlBytes, aCalls>>
    /\ UNCHANGED notAbout

\* part_000:466-467  onClose
AboutClose ==
    /\ appRunning
    /\ aOpen
    /\ aOpen' = FALSE
    /\ UNCHANGED <<aChecking, aUpdateAvailable, aUpdateObject, aIsDownloading, aProgress,
                   aLastCheckStatus, aInstallError, aDlPc, aDlEvents, aDlBytes, aCalls>>
    /\ UNCHANGED notAbout

\* part_000:324-330, 614-615, 632-633, 650-651  handleCheckUpdate up to its await
AboutClickCheck ==
    /\ appRunning
    /\ AboutView \in {"checkFailed", "upToDate", "idle"}
    /\ ~aChecking
    /\ aChecking' = TRUE
    /\ aUpdateAvailable' = FALSE
    /\ UNCHANGED <<aOpen, aUpdateObject, aIsDownloading, aProgress, aLastCheckStatus,
                   aInstallError, aDlPc, aDlEvents, aDlBytes, aCalls>>
    /\ UNCHANGED notAbout

\* part_000:330-340, 365-367  checkUpdate() returns an update or null
AboutCheckReturns ==
    /\ appRunning
    /\ aChecking
    /\ \E u \in {"update", "none"} :
          /\ aUpdateAvailable' = IF u # "none" THEN TRUE ELSE aUpdateAvailable
          /\ aUpdateObject' = IF u # "none" THEN u ELSE aUpdateObject
    /\ aLastCheckStatus' = "success"
    /\ aChecking' = FALSE
    /\ UNCHANGED <<aOpen, aIsDownloading, aProgress, aInstallError, aDlPc, aDlEvents,
                   aDlBytes, aCalls>>
    /\ UNCHANGED notAbout

\* part_000:341-367  checkUpdate() throws
AboutCheckThrows ==
    /\ appRunning
    /\ aChecking
    /\ aLastCheckStatus' = "error"
    /\ aChecking' = FALSE
    /\ UNCHANGED <<aOpen, aUpdateAvailable, aUpdateObject, aIsDownloading, aProgress,
                   aInstallError, aDlPc, aDlEvents, aDlBytes, aCalls>>
    /\ UNCHANGED notAbout

\* part_000:404-414  handleInstallUpdate up to its await
HandleInstallUpdate ==
    /\ aUpdateObject # "none"
    /\ aIsDownloading' = TRUE
    /\ aInstallError' = NoResult
    /\ aProgress' = NoProgress
    /\ aDlPc' = "downloading"
    /\ aDlEvents' = "none"
    /\ aDlBytes' = 0
    /\ aCalls' = [aCalls EXCEPT !.download = @ + 1, !.resolved = 0, !.relaunch = 0]
    /\ UNCHANGED <<aOpen, aChecking, aUpdateAvailable, aUpdateObject, aLastCheckStatus>>
    /\ UNCHANGED notAbout

\* part_000:595-597  'Install Update', unless a download is running
AboutClickInstall ==
    /\ appRunning
    /\ AboutView = "updateAvailable"
    /\ ~aIsDownloading
    /\ aCalls.download < MaxDownloads
    /\ HandleInstallUpdate

\* part_000:560-561  'Retry', in the install-error view
AboutClickRetry ==
    /\ appRunning
    /\ AboutView = "installError"
    /\ aCalls.download < MaxDownloads
    /\ HandleInstallUpdate

\* part_000:415-419  the 'Started' event
AboutDlStarted ==
    /\ appRunning
    /\ aDlPc = "downloading" /\ aDlEvents = "none"
    /\ aDlEvents' = "started"
    /\ \E len \in ContentLengths :
          aProgress' = IF len # 0 THEN Some([downloaded |-> 0, total |-> len])
                       ELSE aProgress
    /\ UNCHANGED <<aOpen, aChecking, aUpdateAvailable, aUpdateObject, aIsDownloading,
                   aLastCheckStatus, aInstallError, aDlPc, aDlBytes, aCalls>>
    /\ UNCHANGED notAbout

\* part_000:420-425  a 'Progress' event
AboutDlProgress ==
    /\ appRunning
    /\ aDlPc = "downloading" /\ aDlEvents = "started"
    /\ aDlBytes < MaxChunks * ChunkLength
    /\ aDlBytes' = aDlBytes + ChunkLength
    /\ \E len \in ContentLengths :
          aProgress' = IF len # 0
                       THEN Some([downloaded |-> aDlBytes + ChunkLength, total |-> len])
                       ELSE aProgress
    /\ UNCHANGED <<aOpen, aChecking, aUpdateAvailable, aUpdateObject, aIsDownloading,
                   aLastCheckStatus, aInstallError, aDlPc, aDlEvents, aCalls>>
    /\ UNCHANGED notAbout

\* part_000:426  the 'Finished' event: the modal has no branch for it
AboutDlFinished ==
    /\ appRunning
    /\ aDlPc = "downloading" /\ aDlEvents = "started"
    /\ aDlEvents' = "finished"
    /\ UNCHANGED <<aOpen, aChecking, aUpdateAvailable, aUpdateObject, aIsDownloading,
                   aProgress, aLastCheckStatus, aInstallError, aDlPc, aDlBytes, aCalls>>
    /\ UNCHANGED notAbout

\* part_000:414, 429-432  downloadAndInstall resolves; relaunch() is called in
\* the same continuation
AboutDlResolved ==
    /\ appRunning
    /\ aDlPc = "downloading" /\ aDlEvents = "finished"
    /\ aDlPc' = "relaunching"
    /\ aCalls' = [aCalls EXCEPT !.resolved = 1, !.relaunch = 1]
    /\ UNCHANGED <<aOpen, aChecking, aUpdateAvailable, aUpdateObject, aIsDownloading,
                   aProgress, aLastCheckStatus, aInstallError, aDlEvents, aDlBytes>>
    /\ UNCHANGED notAbout

\* downloadAndInstall throws and only the finally block runs: no install error.
AboutDlThrowsUnreported ==
    /\ appRunning
    /\ aDlPc = "downloading"
    /\ aIsDownloading' = FALSE
    /\ aProgress' = NoProgress
    /\ aDlPc' = "idle"
    /\ UNCHANGED <<aOpen, aChecking, aUpdateAvailable, aUpdateObject, aLastCheckStatus,
                   aInstallError, aDlEvents, aDlBytes, aCalls>>
    /\ UNCHANGED notAbout

\* part_000:441-448  downloadAndInstall throws
AboutDlThrows ==
    /\ appRunning
    /\ aDlPc = "downloading"
    /\ \E e \in DownloadErrors : aInstallError' = ParseInstallError(e)
    /\ aIsDownloading' = FALSE
    /\ aProgress' = NoProgress
    /\ aDlPc' = "idle"
    /\ UNCHANGED <<aOpen, aChecking, aUpdateAvailable, aUpdateObject, aLastCheckStatus,
                   aDlEvents, aDlBytes, aCalls>>
    /\ UNCHANGED notAbout

\* part_000:432  relaunch() takes effect: the process is replaced
AboutRelaunched ==
    /\ appRunning
    /\ aDlPc = "relaunching"
    /\ appRunning' = FALSE
    /\ UNCHANGED <<bannerVars, aboutVars>>
    /\ UNCHANGED notUpd

\* part_000:433-440, 445-448  relaunch() throws
AboutRelaunchThrows ==
    /\ appRunning
    /\ aDlPc = "relaunching"
    /\ aInstallError' = ModalInstalledError
    /\ aIsDownloading' = FALSE
    /\ aProgress' = NoProgress
    /\ aDlPc' = "idle"
    /\ UNCHANGED <<aOpen, aChecking, aUpdateAvailable, aUpdateObject, aLastCheckStatus,
                   aDlEvents, aDlBytes, aCalls>>
    /\ UNCHANGED notAbout

\* What the updater plugin and the process plugin do to a pending call.
BannerPlugin ==
    \/ BannerDlStarted \/ BannerDlProgress \/ BannerDlFinished
    \/ BannerDlResolved \/ BannerDlThrows
    \/ BannerRelaunched \/ BannerRelaunchThrows

AboutPlugin ==
    \/ AboutDlStarted \/ AboutDlProgress \/ AboutDlFinished
    \/ AboutDlResolved \/ AboutDlThrows
    \/ AboutRelaunched \/ AboutRelaunchThrows

BannerNext ==
    \/ BannerMount \/ BannerCheckReturns \/ BannerCheckThrows
    \/ BannerClickUpdate \/ BannerClickRetry \/ BannerDismiss
    \/ BannerPlugin

AboutNext ==
    \/ AboutOpen \/ AboutClose
    \/ AboutClickCheck \/ AboutCheckReturns \/ AboutCheckThrows
    \/ AboutClickInstall \/ AboutClickRetry
    \/ AboutPlugin

UpdNext == BannerNext \/ AboutNext

----------------------------------------------------------------------------
(* getSecureStore: the lazily opened store handle (SpecOpen)               *)

\* The wrapper operations started, each calling getSecureStore once.
MaxOps == 3
Ops == 1..MaxOps

NoHandle == 0

OpenInit ==
    /\ storeInstance = NoHandle
    /\ opPc = [o \in Ops |-> "new"]
    /\ opHandle = [o \in Ops |-> NoHandle]
    /\ opened = 0

OpenIdle == OpenInit


\* secureStorage.ts:15-16  storeInstance is null: Store.load is called and awaited
GetSecureStoreLoads(o) ==
    /\ opPc[o] = "new"
    /\ storeInstance = NoHandle
    /\ opPc' = [opPc EXCEPT ![o] = "loading"]
    /\ UNCHANGED <<storeInstance, opHandle, opened>>
    /\ UNCHANGED notOpen

\* secureStorage.ts:15, 18  storeInstance is set: it is returned
GetSecureStoreReuses(o) ==
    /\ opPc[o] = "new"
    /\ storeInstance # NoHandle
    /\ opPc' = [opPc EXCEPT ![o] = "has"]
    /\ opHandle' = [opHandle EXCEPT ![o] = storeInstance]
    /\ UNCHANGED <<storeInstance, opened>>
    /\ UNCHANGED notOpen

\* secureStorage.ts:16-18  Store.load returns a new Store object: it is
\* assigned to storeInstance and returned
StoreLoadReturns(o) ==
    /\ opPc[o] = "loading"
    /\ opened' = opened + 1
    /\ storeInstance' = opened + 1
    /\ opHandle' = [opHandle EXCEPT ![o] = opened + 1]
    /\ opPc' = [opPc EXCEPT ![o] = "has"]
    /\ UNCHANGED notOpen

\* secureStorage.ts:16  Store.load throws: the operation's catch takes it
StoreLoadThrows(o) ==
    /\ opPc[o] = "loading"
    /\ opPc' = [opPc EXCEPT ![o] = "failed"]
    /\ UNCHANGED <<storeInstance, opHandle, opened>>
    /\ UNCHANGED notOpen

\* The operation makes its store calls on the handle it was given, and ends.
OpUsesHandle(o) ==
    /\ opPc[o] = "has"
    /\ opPc' = [opPc EXCEPT ![o] = "done"]
    /\ UNCHANGED <<storeInstance, opHandle, opened>>
    /\ UNCHANGED notOpen

OpenNext ==
    \E o \in Ops :
        \/ GetSecureStoreLoads(o)
        \/ GetSecureStoreReuses(o)
        \/ StoreLoadReturns(o)
        \/ StoreLoadThrows(o)
        \/ OpUsesHandle(o)

----------------------------------------------------------------------------
(* AppProvider: projects, documents and theme written back (SpecPersist)   *)

\* The lists the setters are called with; a project and a document by their ids.
ProjectLists == {<<>>, <<[id |-> 1]>>, <<[id |-> 1], [id |-> 2]>>}
DocumentLists == {<<>>, <<[id |-> 1, projectId |-> 1]>>}

\* part_000:66, 70  initialProjects, initialDocuments
InitialProjects == <<[id |-> 1]>>
InitialDocuments == <<[id |-> 1, projectId |-> 1]>>

NotRendered == [unset |-> TRUE]

PerIdle ==
    /\ projects = NotRendered
    /\ documents = NotRendered
    /\ isDark = FALSE
    /\ lsProjects = Null
    /\ lsDocuments = Null
    /\ lsTheme = Null
    /\ perPc = "unmounted"
    /\ perDue = {}

MoreIdle == OpenIdle /\ PerIdle

\* What localStorage holds when the application starts.
PerInit ==
    /\ projects = NotRendered
    /\ documents = NotRendered
    /\ isDark = FALSE
    /\ lsProjects \in {Null} \cup {JsonStringify(v) : v \in ProjectLists}
    /\ lsDocuments \in {Null} \cup {JsonStringify(v) : v \in DocumentLists}
    /\ lsTheme \in {Null, Some("dark"), Some("light")}
    /\ perPc = "unmounted"
    /\ perDue = {}

\* part_000:64-71, 106-114  the useState initializers at the first render; the
\* effects are all due after the mount.
AppProviderStart ==
    /\ perPc = "unmounted"
    /\ perPc' = "mounted"
    /\ projects' = IF lsProjects = Null THEN InitialProjects ELSE JsonParse(lsProjects)
    /\ documents' = IF lsDocuments = Null THEN InitialDocuments ELSE JsonParse(lsDocuments)
    /\ \E prefersDark \in BOOLEAN :
          isDark' = (lsTheme = Some("dark") \/ (lsTheme = Null /\ prefersDark))
    /\ perDue' = {"projects", "documents", "theme"}
    /\ UNCHANGED <<lsProjects, lsDocuments, lsTheme>>
    /\ UNCHANGED notPer

\* part_000:260  setProjects with another list
SetProjects ==
    /\ perPc = "mounted"
    /\ \E v \in ProjectLists \ {projects} : projects' = v
    /\ perDue' = perDue \cup {"projects"}
    /\ UNCHANGED <<documents, isDark, lsProjects, lsDocuments, lsTheme, perPc>>
    /\ UNCHANGED notPer

\* part_000:261  setDocuments with another list
SetDocuments ==
    /\ perPc = "mounted"
    /\ \E v \in DocumentLists \ {documents} : documents' = v
    /\ perDue' = perDue \cup {"documents"}
    /\ UNCHANGED <<projects, isDark, lsProjects, lsDocuments, lsTheme, perPc>>
    /\ UNCHANGED notPer

\* part_000:239  toggleTheme
ToggleTheme ==
    /\ perPc = "mounted"
    /\ isDark' = ~isDark
    /\ perDue' = perDue \cup {"theme"}
    /\ UNCHANGED <<projects, documents, lsProjects, lsDocuments, lsTheme, perPc>>
    /\ UNCHANGED notPer

\* part_000:138-140
PersistProjects ==
    /\ "projects" \in perDue
    /\ lsProjects' = JsonStringify(projects)
    /\ perDue' = perDue \ {"projects"}
    /\ UNCHANGED <<projects, documents, isDark, lsDocuments, lsTheme, perPc>>
    /\ UNCHANGED notPer

\* The documents effect writing only a list that has documents.
PersistDocumentsUnlessEmpty ==
    /\ "documents" \in perDue
    /\ lsDocuments' = IF documents = <<>> THEN lsDocuments ELSE JsonStringify(documents)
    /\ perDue' = perDue \ {"documents"}
    /\ UNCHANGED <<projects, documents, isDark, lsProjects, lsTheme, perPc>>
    /\ UNCHANGED notPer

\* part_000:142-144
PersistDocuments ==
    /\ "documents" \in perDue
    /\ lsDocuments' = JsonStringify(documents)
    /\ perDue' = perDue \ {"documents"}
    /\ UNCHANGED <<projects, documents, isDark, lsProjects, lsTheme, perPc>>
    /\ UNCHANGED notPer

\* part_000:195-203  the theme effect's localStorage.setItem
PersistTheme ==
    /\ "theme" \in perDue
    /\ lsTheme' = Some(IF isDark THEN "dark" ELSE "light")
    /\ perDue' = perDue \ {"theme"}
    /\ UNCHANGED <<projects, documents, isDark, lsProjects, lsDocuments, perPc>>
    /\ UNCHANGED notPer

\* The provider's setters and persistence effects, settings included.
PersistNext ==
    \/ AppProviderStart
    \/ SetProjects \/ SetDocuments \/ ToggleTheme
    \/ PersistProjects \/ PersistDocuments \/ PersistTheme
    \/ ProviderStart \/ SetSettings \/ PersistSettings

----------------------------------------------------------------------------
(* Specifications                                                          *)

Init == SecInit /\ ApiIdle /\ SetIdle /\ ErrIdle /\ UpdIdle /\ MoreIdle

Next == SecNext

Spec == Init /\ [][Next]_vars

StoreInit == ApiInit /\ SecIdle /\ SetIdle /\ ErrIdle /\ UpdIdle /\ MoreIdle

SpecStore == StoreInit /\ [][StoreNext]_vars

SettingsInit == store = EmptyStore /\ SecIdle /\ ApiIdle /\ SetInit /\ ErrIdle /\ UpdIdle /\ MoreIdle

SpecSettings == SettingsInit /\ [][SettingsNext]_vars

ErrorInit == store = EmptyStore /\ SecIdle /\ ApiIdle /\ SetIdle /\ ErrInit /\ UpdIdle /\ MoreIdle

SpecErr == ErrorInit /\ [][ErrNext]_vars

UpdateInit == store = EmptyStore /\ SecIdle /\ ApiIdle /\ SetIdle /\ ErrIdle /\ UpdInit /\ MoreIdle

SpecUpd == UpdateInit /\ [][UpdNext]_vars

OpenStartInit ==
    /\ store = EmptyStore /\ SecIdle /\ ApiIdle /\ SetIdle /\ ErrIdle /\ UpdIdle
    /\ OpenInit /\ PerIdle

SpecOpen == OpenStartInit /\ [][OpenNext]_vars

\* The blobs migrateApiKeys may find, one of them with an empty apiKey, over a
\* secure store that is empty or already holds a key.
MigrateInit ==
    /\ SecIdle /\ ApiIdle /\ ErrIdle /\ UpdIdle /\ MoreIdle
    /\ store \in {EmptyStore, SaveApiKey(EmptyStore, "openai", "sk-1")}
    /\ blob \in {Null, JsonStringify(NoProvidersSettings),
                  JsonStringify([LegacySettings({"mistral"}) EXCEPT
                      !.providers.openai = [models |-> <<>>, apiKey |-> ""]])}
                 \cup {JsonStringify(LegacySettings(keyed)) : keyed \in SUBSET ProviderNames}
    /\ settings = NoSettings
    /\ provPc = "unmounted"
    /\ settingsDue = FALSE
    /\ savedSettings = NoSettings
    /\ migPc = "idle"
    /\ migSettings = NoSettings
    /\ migIdx = 0
    /\ migMigrated = FALSE
    /\ starts = 1

SpecMigrate == MigrateInit /\ [][MigrateNext]_vars

PersistInit ==
    /\ store = EmptyStore /\ SecIdle /\ ApiIdle /\ ErrIdle /\ UpdIdle /\ OpenIdle
    /\ PerInit
    /\ SetIdle \/ (blob = JsonStringify(LegacySettings({"openai"})) /\ settings = NoSettings
                    /\ provPc = "unmounted" /\ settingsDue = FALSE
                    /\ savedSettings = NoSettings /\ migPc = "idle"
                    /\ migSettings = NoSettings /\ migIdx = 0 /\ migMigrated = FALSE
                    /\ starts = 1)

SpecPersist == PersistInit /\ [][PersistNext]_vars

\* The writers of the secure store and their three callers, one kind of run
\* per behaviour: the wrapper's writing functions called directly, before
\* any startup code has run; or the startup, migrateApiKeys first and then
\* the provider with its load and its save effect, with no direct call.
DirectWriteCall ==
    /\ SecIdle /\ migPc = "idle"
    /\ \/ CallSaveApiKey
       \/ CallDeleteApiKey
       \/ CallSaveBaseUrl
       \/ CallClearSecureStorage
       \/ CallSaveSecurityState
       \/ CallClearSecurityState

StartupMigration ==
    /\ apiLast = NoCall /\ loadPc = "start"
    /\ \/ MigrateStart
       \/ MigrateSaveReturns
       \/ MigrateSaveThrows

ProviderSecurity ==
    /\ apiLast = NoCall /\ migPc # "saving"
    /\ SecNext

WriteNext ==
    \/ DirectWriteCall
    \/ StartupMigration
    \/ ProviderSecurity

\* A secure store that is empty or holds a security state set earlier, and
\* no blob or a blob of an older version with two API keys.
WriteInit ==
    /\ ApiIdle /\ ErrIdle /\ UpdIdle /\ MoreIdle
    /\ store \in {EmptyStore,
                   SaveSecurityState(EmptyStore,
                       [enabled |-> TRUE, pin |-> "5678", secret |-> DefaultSecret,
                        locked |-> FALSE])}
    /\ security = DEFAULT_SECURITY
    /\ securityLoaded = FALSE
    /\ sessionUnlocked = FALSE
    /\ legacySecurity = Null
    /\ loadPc = "start"
    /\ loadOutcome = "none"
    /\ saveDue = TRUE
    /\ blob \in {Null, JsonStringify(LegacySettings({"openai", "mistral"}))}
    /\ settings = NoSettings
    /\ provPc = "unmounted"
    /\ settingsDue = FALSE
    /\ savedSettings = NoSettings
    /\ migPc = "idle"
    /\ migSettings = NoSettings
    /\ migIdx = 0
    /\ migMigrated = FALSE
    /\ starts = 1

SpecWrite == WriteInit /\ [][WriteNext]_vars

\* The plugins settle every pending call: the download goes on to resolve or
\* throw, and relaunch() to take effect or throw.
SpecUpdFair ==
    /\ UpdateInit /\ [][UpdNext]_vars
    /\ WF_vars(BannerPlugin)
    /\ WF_vars(AboutPlugin)

----------------------------------------------------------------------------
(* Claims: the provider's security state (Spec)                            *)

\* A stored PIN that is custom: present, non-empty, four characters, not '1234'.
StoredPinIsCustom(st) ==
    /\ st[KeyPin] # Null
    /\ st[KeyPin][1] # ""
    /\ Len(st[KeyPin][1]) = 4
    /\ st[KeyPin][1] # "1234"

\* C1: in every reachable state of the provider, security.locked is true only
\* if security.enabled is true and the PIN is a custom 4-character PIN other
\* than the default '1234'.
C1_LockedOnlyWhenConfigured ==
    security.locked =>
        /\ security.enabled
        /\ Len(security.pin) = 4
        /\ security.pin # "1234"

\* C2: when the startup load has read the store, the locked flag it sets equals
\* stored enabled AND stored PIN custom AND session flag 'unlocked' absent.
C2_LoadRecomputesLocked ==
    [][(loadPc = "migrated" /\ loadPc' = "done" /\ loadOutcome' = "ok") =>
          security'.locked = (/\ store[KeyEnabled] = Some(TRUE)
                              /\ StoredPinIsCustom(store)
                              /\ ~sessionUnlocked)]_vars

\* C2 witness: the load has just completed on an enabled store with a custom
\* PIN and no session flag, and the provider is locked.
C2_Witness ==
    /\ loadPc = "done" /\ loadOutcome = "ok" /\ saveDue
    /\ store[KeyEnabled] = Some(TRUE) /\ StoredPinIsCustom(store) /\ ~sessionUnlocked
    /\ security = [LoadSecurityState(store) EXCEPT !.locked = TRUE]

----------------------------------------------------------------------------
(* Claims: the secure-storage wrapper (SpecStore)                          *)

\* C3: the locked flag is never persisted: a saveSecurityState(s) that returns
\* has written security_enabled, security_pin and security_secret from s and
\* no other key, and a loadSecurityState that follows it returns s.enabled,
\* s.pin, s.secret and locked = s.enabled, whatever s.locked was.
C3_LockedNeverPersisted ==
    [][/\ (apiLast'.op = "saveSecurityState" /\ apiLast'.ok) =>
            /\ store'[KeyEnabled] = Some(apiLast'.arg.enabled)
            /\ store'[KeyPin] = Some(apiLast'.arg.pin)
            /\ store'[KeySecret] = Some(apiLast'.arg.secret)
            /\ \A key \in StoreKeys \ SecurityKeys : store'[key] = store[key]
       /\ (/\ apiLast.op = "saveSecurityState" /\ apiLast.ok
           /\ apiLast'.op = "loadSecurityState" /\ apiLast'.ok) =>
            apiLast'.result = [enabled |-> apiLast.arg.enabled,
                               pin |-> apiLast.arg.pin,
                               secret |-> apiLast.arg.secret,
                               locked |-> apiLast.arg.enabled]]_vars

\* C3 witness: an enabled, unlocked state was saved, API keys were in the store,
\* and the load that followed returned it locked.
C3_Witness ==
    /\ apiPrev.op = "saveSecurityState" /\ apiPrev.ok
    /\ apiPrev.arg.enabled /\ ~apiPrev.arg.locked
    /\ apiLast.op = "loadSecurityState" /\ apiLast.ok
    /\ apiLast.result.locked
    /\ store[ApiKeyName("openai")] # Null

----------------------------------------------------------------------------
(* Claims: settings persistence and the API-key migration (SpecSettings)   *)

\* A settings value with every provider's apiKey field removed.
StripApiKeys(s) ==
    IF "providers" \in DOMAIN s
    THEN [s EXCEPT !.providers =
            [p \in DOMAIN s.providers |-> DeleteApiKeyField(s.providers[p])]]
    ELSE s

\* The blob carries no apiKey field for any of the five cloud providers.
BlobHasNoApiKey ==
    \/ blob = Null
    \/ "providers" \notin DOMAIN JsonParse(blob)
    \/ \A p \in ProviderNames : "apiKey" \notin DOMAIN JsonParse(blob).providers[p]

\* C4: settings persistence is a round trip minus API keys: what the provider
\* reads from 'settings' at the next start is the value that was in memory at
\* the last save with every apiKey field removed, all other fields unchanged.
C4_SettingsRoundTrip ==
    [][(provPc = "unmounted" /\ provPc' = "mounted" /\ savedSettings # NoSettings) =>
          settings' = StripApiKeys(savedSettings)]_vars

\* C5: once migrateApiKeys has completed successfully, the 'settings' blob
\* holds no apiKey field for the five cloud providers, in any later state of
\* the run and under every interleaving with the provider's read and write-back.
C5_NoApiKeyAfterMigration ==
    migPc = "done" => BlobHasNoApiKey

----------------------------------------------------------------------------
(* Claims: the error classifiers (SpecErr)                                 *)

IsNetworkText(raw) ==
    Includes(raw, "network") \/ Includes(raw, "fetch") \/ Includes(raw, "connection")
IsVerificationText(raw) ==
    Includes(raw, "signature") \/ Includes(raw, "verify")
IsRestartText(raw) ==
    Includes(raw, "relaunch") \/ Includes(raw, "restart")

\* The category of a message text, with all five categories of the claim.
FiveWayCategory(raw) ==
    CASE IsNetworkText(raw) -> "network"
      [] ~IsNetworkText(raw) /\ IsVerificationText(raw) -> "verification"
      [] /\ ~IsNetworkText(raw) /\ ~IsVerificationText(raw)
         /\ (\/ Includes(raw, "permission")
             \/ Includes(raw, "access denied")
             \/ Includes(raw, "EPERM")) -> "permission"
      [] /\ ~IsNetworkText(raw) /\ ~IsVerificationText(raw)
         /\ ~Includes(raw, "permission") /\ ~Includes(raw, "access denied")
         /\ ~Includes(raw, "EPERM")
         /\ IsRestartText(raw) -> "restart"
      [] OTHER -> "generic"

\* The category of a message text in the About modal: no restart category,
\* and 'access denied' is not a permission text.
FourWayCategory(raw) ==
    CASE IsNetworkText(raw) -> "network"
      [] ~IsNetworkText(raw) /\ IsVerificationText(raw) -> "verification"
      [] /\ ~IsNetworkText(raw) /\ ~IsVerificationText(raw)
         /\ (Includes(raw, "permission") \/ Includes(raw, "EPERM")) -> "permission"
      [] OTHER -> "generic"

\* The category a widget's result stands for, by its title.
BannerCategory(res) ==
    CASE res.message = "Network Error" -> "network"
      [] res.message = "Signature Verification Failed" -> "verification"
      [] res.message = "Permission Denied" -> "permission"
      [] res.message = "Restart Failed" -> "restart"
      [] res.message = "Update Failed" -> "generic"

ModalCategory(res) ==
    CASE res.message = "Network Error" -> "network"
      [] res.message = "Verification Failed" -> "verification"
      [] res.message = "Permission Denied" -> "permission"
      [] res.message = "Install Failed" -> "generic"

\* Each widget's fixed tip list per category.
BannerTips(cat) ==
    CASE cat = "network" -> <<"Check your internet connection",
                              "Try disabling VPN or proxy",
                              "Firewall may be blocking the connection">>
      [] cat = "verification" -> <<"The update file may be corrupted",
                                   "Try again in a few minutes",
                                   "Download manually from GitHub releases">>
      [] cat = "permission" -> <<"Close other instances of the app",
                                 "Run as administrator (Windows)",
                                 "Check disk space and permissions">>
      [] cat = "restart" -> <<"Manually close and reopen the app",
                              "The update will apply on next launch">>
      [] cat = "generic" -> <<"Try again in a few minutes",
                              "Check your internet connection",
                              "Download manually from GitHub releases">>

ModalTips(cat) ==
    CASE cat = "network" -> <<"Check your internet connection", "Try disabling VPN or proxy">>
      [] cat = "verification" -> <<"Try again in a few minutes", "Download from GitHub instead">>
      [] cat = "permission" -> <<"Close other instances", "Check disk permissions">>
      [] cat = "generic" -> <<"Try again later", "Download from GitHub releases">>

\* The raw message cut to its first 'limit' characters and followed by '...'
\* when it is longer than that, and as it is otherwise.
CutDetails(raw, limit) ==
    IF Len(raw) > limit THEN SubSeq(raw, 1, limit) \o "..." ELSE raw

BannerClassifiesAs(cat) ==
    errBanner # NoResult =>
        /\ BannerCategory(errBanner) = cat
        /\ errBanner.troubleshooting = BannerTips(cat)
        /\ cat = "generic" =>
              errBanner.details = CutDetails(RawMessage(errThrown), BannerDetailLimit)

ModalClassifiesAs(cat) ==
    errModal # NoResult =>
        /\ ModalCategory(errModal) = cat
        /\ cat \in {"network", "verification", "permission", "generic"}
        /\ errModal.tips = ModalTips(cat)
        /\ cat = "generic" =>
              errModal.details = CutDetails(RawMessage(errThrown), ModalDetailLimit)

\* C7 as claimed: each update widget puts the message text of a thrown error
\* into exactly one of network, verification, permission, restart, generic, by
\* case-sensitive substring match in that order, attaches that category's tip
\* list, and in the generic category cuts the raw message to a fixed length.
C7_BothWidgetsFiveCategories ==
    /\ BannerClassifiesAs(FiveWayCategory(RawMessage(errThrown)))
    /\ ModalClassifiesAs(FiveWayCategory(RawMessage(errThrown)))

\* C7 as amended: the banner classifies into the five categories; the About
\* modal has no restart category and does not look for 'access denied', so
\* these texts are generic there; the generic details are the raw message as
\* it is up to the limit (100 in the banner, 80 in the modal) and its first
\* 100 / 80 characters followed by '...' beyond it.
C7_WidgetsClassify ==
    /\ BannerClassifiesAs(FiveWayCategory(RawMessage(errThrown)))
    /\ ModalClassifiesAs(FourWayCategory(RawMessage(errThrown)))

\* C7 witness: a text longer than the modal's limit that names a restart: the
\* banner has it as 'Restart Failed', the modal as generic with cut details.
C7_Witness ==
    /\ errBanner # NoResult /\ errModal # NoResult
    /\ Includes(RawMessage(errThrown), "restart")
    /\ Len(RawMessage(errThrown)) > ModalDetailLimit
    /\ errBanner.message = "Restart Failed"
    /\ errModal.message = "Install Failed"
    /\ errModal.details = SubSeq(RawMessage(errThrown), 1, ModalDetailLimit) \o "..."

----------------------------------------------------------------------------
(* Claims: the update widgets (SpecUpd, SpecUpdFair)                       *)

\* The state of the banner, in the words of the transition diagram.
BannerPhase ==
    IF bDlPc = "downloading" THEN "downloading"
    ELSE IF bDlPc = "relaunching" THEN "installed-relaunching"
    ELSE IF bError # NoResult THEN "install-error"
    ELSE IF bCheckPc = "unmounted" THEN "idle"
    ELSE IF bCheckPc = "checking" THEN "checking"
    ELSE IF bCheckResult = "update" THEN "available"
    ELSE IF bCheckResult = "failed" THEN "error"
    ELSE "up-to-date"

\* The state of the About modal's update section, in the same words.
AboutPhase ==
    IF aDlPc = "downloading" THEN "downloading"
    ELSE IF aDlPc = "relaunching" THEN "installed-relaunching"
    ELSE IF aInstallError # NoResult THEN "install-error"
    ELSE IF aChecking THEN "checking"
    ELSE IF aUpdateAvailable THEN "available"
    ELSE IF aLastCheckStatus = "error" THEN "error"
    ELSE IF aLastCheckStatus = "success" THEN "up-to-date"
    ELSE "idle"

CheckedPhases == {"up-to-date", "available", "error"}

\* The arrows of idle -> checking -> {up-to-date | available | error} ->
\* downloading -> {installed-relaunching | install-error}.
ChainArrow(p, q) ==
    \/ p = "idle" /\ q = "checking"
    \/ p = "checking" /\ q \in CheckedPhases
    \/ p \in CheckedPhases /\ q = "downloading"
    \/ p = "downloading" /\ q \in {"installed-relaunching", "install-error"}

\* The arrows the widgets take: the chain, with the download entered from
\* 'available' only, and besides it a repeated manual check, Retry, and a
\* relaunch that throws.
WidgetArrow(p, q) ==
    \/ p = "idle" /\ q = "checking"
    \/ p = "checking" /\ q \in CheckedPhases
    \/ p = "available" /\ q = "downloading"
    \/ p = "downloading" /\ q \in {"installed-relaunching", "install-error"}
    \/ p \in {"up-to-date", "error"} /\ q = "checking"
    \/ p = "install-error" /\ q = "downloading"
    \/ p = "installed-relaunching" /\ q = "install-error"

\* C6 as stated: each widget's state changes only along the arrows idle ->
\* checking -> {up-to-date | available | error} -> downloading ->
\* {installed-relaunching | install-error}.
C6_OnlyChainTransitions ==
    [][ /\ BannerPhase' # BannerPhase => ChainArrow(BannerPhase, BannerPhase')
        /\ AboutPhase' # AboutPhase => ChainArrow(AboutPhase, AboutPhase') ]_vars

\* C6 amended: each widget's state changes only along the chain's arrows, a
\* repeated manual check (up-to-date or error -> checking), Retry (install-error
\* -> downloading) and a relaunch that throws (installed-relaunching ->
\* install-error); the downloading state is entered only with the update
\* object a check returned, and is left only for installed-relaunching or
\* install-error.
C6_WidgetTransitions ==
    [][ /\ BannerPhase' # BannerPhase => WidgetArrow(BannerPhase, BannerPhase')
        /\ AboutPhase' # AboutPhase => WidgetArrow(AboutPhase, AboutPhase')
        /\ bCalls'.download # bCalls.download =>
              /\ bUpdate # "none" /\ bCheckResult = "update"
              /\ BannerPhase' = "downloading"
        /\ aCalls'.download # aCalls.download =>
              /\ aUpdateObject # "none"
              /\ AboutPhase' = "downloading" ]_vars

\* C6 witness: the banner retried and is relaunching, the About modal's
\* download has ended in an install error.
C6_Witness ==
    /\ bCalls.download = 2 /\ BannerPhase = "installed-relaunching"
    /\ aCalls.download >= 1 /\ AboutPhase = "install-error"

\* C8: the banner calls check() once, when it mounts; it is on screen exactly
\* when that check returned an update and the user has not dismissed it; a
\* check that failed or returned nothing leaves it hidden, without an error
\* and without a download.
C8_BannerChecksOnceAtStartup ==
    /\ bCalls.check = (IF bCheckPc = "unmounted" THEN 0 ELSE 1)
    /\ BannerVisible <=> (bCheckResult = "update" /\ ~bDismissed)
    /\ bCheckResult \in {"empty", "failed"} =>
          /\ ~BannerVisible
          /\ bError = NoResult
          /\ bCalls.download = 0

\* C8 witness: the startup check has failed, and the About modal has since
\* found an update.
C8_Witness ==
    /\ bCheckPc = "done" /\ bCheckResult = "failed"
    /\ aUpdateAvailable

\* C9: in each widget relaunch() has been called for the download last
\* started exactly if that downloadAndInstall resolved, once and in the step
\* that resolved it; it has not been called for one that threw or is in flight.
C9_RelaunchExactlyOnSuccess ==
    /\ bCalls.relaunch = bCalls.resolved
    /\ aCalls.relaunch = aCalls.resolved
    /\ bDlPc = "relaunching" => bCalls.relaunch > 0
    /\ aDlPc = "relaunching" => aCalls.relaunch > 0

\* C9 witness: the banner's first download threw and its second resolved, so
\* relaunch() is pending after one call; the modal's download threw.
C9_Witness ==
    /\ bCalls.download = 2 /\ bCalls.relaunch = 1 /\ bDlPc = "relaunching"
    /\ aCalls.download = 1 /\ aCalls.relaunch = 0 /\ aInstallError # NoResult

C11_NothingRetriedAutomatically ==
    [][ /\ bCalls'.download # bCalls.download =>
              /\ BannerClickUpdate \/ BannerClickRetry
              /\ bCalls'.download = bCalls.download + 1
        /\ aCalls'.download # aCalls.download =>
              /\ AboutClickInstall \/ AboutClickRetry
              /\ aCalls'.download = aCalls.download + 1
        /\ bCalls'.check # bCalls.check => BannerMount
        /\ (aChecking' /\ ~aChecking) => AboutClickCheck
        /\ (bError # NoResult /\ bCalls'.download # bCalls.download) =>
              /\ bUpdate' = bUpdate /\ bDlPc' = "downloading" /\ bDlEvents' = "none"
        /\ (aInstallError # NoResult /\ aCalls'.download # aCalls.download) =>
              /\ aUpdateObject' = aUpdateObject /\ aDlPc' = "downloading"
              /\ aDlEvents' = "none"
        /\ (appRunning /\ BannerVisible /\ bError # NoResult
              /\ bCalls.download < MaxDownloads) => ENABLED BannerClickRetry
        /\ (appRunning /\ aOpen /\ aInstallError # NoResult
              /\ aCalls.download < MaxDownloads) => ENABLED AboutClickRetry ]_vars

\* C11 witness: the banner was retried and its relaunch then threw; the modal's
\* Retry has its second download in flight.
C11_Witness ==
    /\ bCalls.download = 2 /\ bError = BannerInstalledError
    /\ aCalls.download = 2 /\ aDlPc = "downloading"

----------------------------------------------------------------------------
(* Claims: the secure-storage wrapper (SpecStore)                          *)

\* C12: a read whose store call failed returns a value, not an error: getApiKey
\* and getBaseUrl return null, hasApiKey returns false and loadSecurityState
\* returns the default state, whatever the store holds.
C12_ReadFailuresGiveDefaults ==
    /\ (apiLast.op \in {"getApiKey", "getBaseUrl"} /\ ~apiLast.ok) =>
          apiLast.result = Null
    /\ (apiLast.op = "hasApiKey" /\ ~apiLast.ok) => apiLast.result = FALSE
    /\ (apiLast.op = "loadSecurityState" /\ ~apiLast.ok) =>
          apiLast.result = [enabled |-> FALSE, pin |-> "1234",
                            secret |-> "A7X9-B2M4-L8Q1", locked |-> FALSE]
    /\ apiLast.op \in {"getApiKey", "getBaseUrl", "hasApiKey", "loadSecurityState"} =>
          "result" \in DOMAIN apiLast

\* C12 witness: loadSecurityState failed over a store that holds an enabled
\* lock with a PIN of its own.
C12_Witness ==
    /\ apiLast.op = "loadSecurityState" /\ ~apiLast.ok
    /\ store[KeyEnabled] = Some(TRUE) /\ store[KeyPin] = Some("5678")

\* C13: whatever the interleaving of the operations started, Store.load has
\* returned a handle at most once and all operations were given the same one.
C13_StoreOpenedOnce ==
    /\ opened <= 1
    /\ \A o, q \in Ops :
          (opHandle[o] # NoHandle /\ opHandle[q] # NoHandle) => opHandle[o] = opHandle[q]

----------------------------------------------------------------------------
(* Claims: AppProvider's persistence effects (SpecPersist)                 *)

----------------------------------------------------------------------------
(* Claims: migrateApiKeys on its own (SpecMigrate)                         *)

\* The blob has a providers field.
BlobHasProviders == blob # Null /\ "providers" \in DOMAIN JsonParse(blob)

\* C15: the step that ends a run of migrateApiKeys which moved a key leaves
\* every one of the five providers that had a key in the blob with that key
\* under apikey_<provider> and without an apiKey field in the blob; a run after
\* one that returned changes neither the secure store nor the blob; and with no
\* blob or no providers field a run changes nothing.
C15_MigrationOneShot ==
    [][ /\ (migPc = "saving" /\ migPc' = "done") =>
              \A p \in ProviderNames :
                  CfgHasApiKey(JsonParse(blob).providers[p]) =>
                      /\ store'[ApiKeyName(p)] = Some(JsonParse(blob).providers[p].apiKey)
                      /\ "apiKey" \notin DOMAIN JsonParse(blob').providers[p]
        /\ starts > 1 => UNCHANGED <<store, blob>>
        /\ (migPc = "idle" /\ ~BlobHasProviders) =>
              /\ UNCHANGED <<store, blob>>
              /\ migPc' = "done" ]_vars

\* C15 witness: a second run has returned over a blob from which the first
\* moved several keys, one of them over a key the store already held.
C15_Witness ==
    /\ starts = 2 /\ migPc = "done"
    /\ store[ApiKeyName("openai")] = Some(KeyOf("openai"))
    /\ store[ApiKeyName("gemini")] = Some(KeyOf("gemini"))
    /\ BlobHasProviders /\ BlobHasNoApiKey

----------------------------------------------------------------------------
(* Claims: the wrapper's keys (SpecStore)                                  *)

\* The other providers' keys are as before the step.
OtherApiKeysKept(p) ==
    \A q \in ProviderNames \ {p} : GetApiKey(store', q, TRUE) = GetApiKey(store, q, TRUE)

\* C16: a saveApiKey(p, k) that returned makes getApiKey(p) give k, a
\* deleteApiKey(p) that returned makes it give null, both leave what getApiKey
\* gives for every other provider, the two reads change nothing, and hasApiKey
\* is true exactly where getApiKey is not null; so after calls that all
\* returned getApiKey(p) gives the last key saved for p and not deleted since.
C16_ApiKeyRoundTrip ==
    [][ /\ (apiLast'.op = "saveApiKey" /\ apiLast'.ok) =>
              /\ GetApiKey(store', apiLast'.arg[1], TRUE) = Some(apiLast'.arg[2])
              /\ OtherApiKeysKept(apiLast'.arg[1])
        /\ (apiLast'.op = "deleteApiKey" /\ apiLast'.ok) =>
              /\ GetApiKey(store', apiLast'.arg, TRUE) = Null
              /\ OtherApiKeysKept(apiLast'.arg)
        /\ apiLast'.op \in {"getApiKey", "hasApiKey"} => store' = store
        /\ (apiLast'.op = "getApiKey" /\ apiLast'.ok) =>
              apiLast'.result = store[ApiKeyName(apiLast'.arg)]
        /\ (apiLast'.op = "hasApiKey" /\ apiLast'.ok) =>
              (apiLast'.result <=> GetApiKey(store, apiLast'.arg, TRUE) # Null) ]_vars

\* C16 witness: openai's key was saved and deleted again, mistral's key is
\* still the one saved.
C16_Witness ==
    /\ apiLast.op = "deleteApiKey" /\ apiLast.ok /\ apiLast.arg = "openai"
    /\ GetApiKey(store, "openai", TRUE) = Null
    /\ GetApiKey(store, "mistral", TRUE) = Some("sk-2")

----------------------------------------------------------------------------
(* Claims: the provider's startup (Spec)                                   *)

\* No security data in the secure store.
NoStoredSecurity == \A key \in SecurityKeys : store[key] = Null

\* C17: the startup call of migrateSecurityFromLocalStorage returns with the
\* legacy 'security' entry gone and the secure store as it was; nothing of the
\* legacy state is in the secure store at any time; and when the load ends
\* over a store without security data the state in memory is neither enabled
\* nor locked.
C17_FreshInstallUnlocked ==
    [][ /\ (loadPc = "start" /\ loadPc' # "start") =>
              /\ loadPc' = "migrated"
              /\ legacySecurity' \in {Null, LegacyRemoved}
              /\ store' = store
        /\ store'[KeyPin] # Some(LegacySecurityState.pin)
        /\ store'[KeySecret] # Some(LegacySecurityState.secret)
        /\ (loadPc = "migrated" /\ loadPc' = "done" /\ NoStoredSecurity) =>
              /\ ~security'.enabled /\ ~security'.locked ]_vars

\* C17 witness: the load has ended over a store without security data after a
\* legacy entry was removed.
C17_Witness ==
    /\ loadPc = "done" /\ legacySecurity = LegacyRemoved
    /\ NoStoredSecurity
    /\ ~security.enabled /\ ~security.locked

\* C18: as long as the startup load has not settled no step changes the secure
\* store; once it has, the save effect is due after the load itself and after
\* every change of the security state, and when it runs it calls
\* saveSecurityState with the state then in memory.
C18_NoSaveBeforeLoad ==
    [][ /\ ~securityLoaded => store' = store
        /\ (securityLoaded' /\ ~securityLoaded) => saveDue'
        /\ (securityLoaded /\ security' # security) => saveDue'
        /\ (securityLoaded /\ saveDue /\ ~saveDue') =>
              \E k \in 0..3 : store' = SaveSecurityPartial(store, security, k) ]_vars

\* C18 witness: the load is done, a PIN set since then has been saved, and
\* no save is due.
C18_Witness ==
    /\ loadPc = "done" /\ securityLoaded /\ ~saveDue
    /\ security.enabled /\ security.pin = "5678"
    /\ store[KeyEnabled] = Some(TRUE) /\ store[KeyPin] = Some("5678")

\* The step in which the banner's, or the modal's, relaunch() call has thrown.
C19_BannerRelaunchThrew == appRunning /\ bDlPc = "relaunching" /\ bDlPc' = "idle"

C19_AboutRelaunchThrew == appRunning /\ aDlPc = "relaunching" /\ aDlPc' = "idle"

\* C19: when relaunch() throws after downloadAndInstall completed, the widget's
\* error state is the fixed 'Update Installed' record, which is no result of the
\* message classifier, and busy / isDownloading is cleared; the message is on
\* screen if the banner has not been dismissed, respectively the modal is open.
C19_RelaunchFailureReportedAsInstalled ==
    [][ /\ C19_BannerRelaunchThrew =>
              /\ bCalls.resolved = 1 /\ bCalls.relaunch = 1
              /\ bError' = BannerInstalledError
              /\ \A e \in DownloadErrors : bError' # ParseError(e)
              /\ ~bBusy'
              /\ ~bDismissed => BannerVisible'
        /\ C19_AboutRelaunchThrew =>
              /\ aCalls.resolved = 1 /\ aCalls.relaunch = 1
              /\ aInstallError' = ModalInstalledError
              /\ \A e \in DownloadErrors : aInstallError' # ParseInstallError(e)
              /\ ~aIsDownloading' /\ aProgress' = NoProgress
              /\ aOpen => AboutView' = "installError" ]_vars

\* C19 witness: both widgets have had relaunch() throw and show the message.
C19_Witness ==
    /\ appRunning
    /\ bDlPc = "idle" /\ bCalls.relaunch = 1 /\ bError = BannerInstalledError
    /\ ~bBusy /\ BannerVisible
    /\ aDlPc = "idle" /\ aCalls.relaunch = 1 /\ aInstallError = ModalInstalledError
    /\ ~aIsDownloading /\ AboutView = "installError"

\* C19 as stated: whenever relaunch() throws, the widget shows the message.
C19_InstalledMessageAlwaysShown ==
    [][ /\ C19_BannerRelaunchThrew =>
              BannerVisible' /\ bError' = BannerInstalledError /\ ~bBusy'
        /\ C19_AboutRelaunchThrew =>
              /\ AboutView' = "installError" /\ aInstallError' = ModalInstalledError
              /\ ~aIsDownloading' ]_vars

----------------------------------------------------------------------------
(* Claims: the wrapper's frame (SpecStore)                                 *)

\* The step leaves every entry outside 'own' as it was.
ChangesOnly(own) == \A key \in StoreKeys \ own : store'[key] = store[key]

\* C20: whether it returns or throws, saveBaseUrl(p, u) changes no entry but
\* baseurl_p, saveApiKey(p, k) and deleteApiKey(p) none but apikey_p,
\* saveSecurityState and clearSecurityState none but the three security
\* entries; a saveBaseUrl that returned has stored u, a clearSecurityState that
\* returned has removed all three security entries, and after a
\* clearSecureStorage that returned no entry is left: every getApiKey and
\* getBaseUrl gives null and loadSecurityState gives the defaults.
C20_OperationsChangeOwnKeys ==
    [][ /\ apiLast'.op = "saveBaseUrl" =>
              /\ ChangesOnly({BaseUrlName(apiLast'.arg[1])})
              /\ apiLast'.ok =>
                    GetBaseUrl(store', apiLast'.arg[1], TRUE) = Some(apiLast'.arg[2])
        /\ apiLast'.op = "saveSecurityState" => ChangesOnly(SecurityKeys)
        /\ apiLast'.op = "saveApiKey" => ChangesOnly({ApiKeyName(apiLast'.arg[1])})
        /\ apiLast'.op = "deleteApiKey" => ChangesOnly({ApiKeyName(apiLast'.arg)})
        /\ apiLast'.op = "clearSecurityState" =>
              /\ ChangesOnly(SecurityKeys)
              /\ apiLast'.ok => \A key \in SecurityKeys : store'[key] = Null
        /\ (apiLast'.op = "clearSecureStorage" /\ apiLast'.ok) =>
              /\ \A key \in StoreKeys : store'[key] = Null
              /\ \A q \in ProviderNames : GetApiKey(store', q, TRUE) = Null
              /\ \A q \in LocalProviders : GetBaseUrl(store', q, TRUE) = Null
              /\ LoadSecurityStateOrDefault(store', TRUE) = DEFAULT_SECURITY ]_vars

\* C20 witness: security state was saved and then cleared by a
\* clearSecurityState that returned, and an API key and a base URL saved
\* before are still there.
C20_Witness ==
    /\ apiLast.op = "clearSecurityState" /\ apiLast.ok
    /\ apiPrev.op = "saveSecurityState" /\ apiPrev.ok
    /\ \A key \in SecurityKeys : store[key] = Null
    /\ GetApiKey(store, "openai", TRUE) = Some("sk-1")
    /\ GetBaseUrl(store, "ollama", TRUE) = Some("http://localhost:11434")

----------------------------------------------------------------------------
(* Claims: failing writes (SpecWrite)                                      *)

\* What the writing call recorded in c does to the store st when it returns.
WrittenBy(c, st) ==
    IF c.op = "saveApiKey" THEN SaveApiKey(st, c.arg[1], c.arg[2])
    ELSE IF c.op = "deleteApiKey" THEN DeleteApiKey(st, c.arg)
    ELSE IF c.op = "saveBaseUrl" THEN SaveBaseUrl(st, c.arg[1], c.arg[2])
    ELSE IF c.op = "clearSecureStorage" THEN ClearSecureStorage(st)
    ELSE IF c.op = "saveSecurityState" THEN SaveSecurityState(st, c.arg)
    ELSE IF c.op = "clearSecurityState" THEN ClearSecurityState(st)
    ELSE st

\* C21: a writing function of the wrapper returns to its caller only when all
\* of its store calls went through, so every failure of the store reaches the
\* caller as a throw; migrateApiKeys goes on past a provider only when that
\* provider's key is in the store and otherwise ends as failed, for good; and
\* a run of the provider's save effect, failing or not, leaves the security
\* state in memory, the loaded flag and the finished load as they were.
C21_WriteFailuresRethrown ==
    [][ /\ (apiLast' # apiLast /\ apiLast'.ok) => store' = WrittenBy(apiLast', store)
        /\ (migPc = "saving" /\ migPc' # "failed") =>
              store'[ApiKeyName(MigrationProviders[migIdx])] =
                  Some(migSettings.providers[MigrationProviders[migIdx]].apiKey)
        /\ migPc = "failed" => (migPc' = "failed" /\ blob' = blob)
        /\ (securityLoaded /\ saveDue /\ ~saveDue') =>
              /\ security' = security
              /\ securityLoaded'
              /\ loadPc' = "done" ]_vars

\* C21 witness: migrateApiKeys ended as failed at startup, and afterwards a
\* save of a newly set PIN failed after its first store call; the provider
\* still holds the new state.
C21_Witness ==
    /\ migPc = "failed"
    /\ loadPc = "done" /\ securityLoaded /\ ~saveDue
    /\ security.enabled /\ security.pin = "5678"
    /\ store[KeyEnabled] = Some(TRUE) /\ store[KeyPin] = Null

----------------------------------------------------------------------------
(* Claims: no key lost by the migration (SpecSettings)                     *)

\* The API key the blob carries for provider p, if any.
BlobApiKey(p) ==
    IF BlobHasProviders /\ CfgHasApiKey(JsonParse(blob).providers[p])
    THEN Some(JsonParse(blob).providers[p].apiKey)
    ELSE Null

\* C22: no step of the migration, of the provider or of a restart loses a
\* key: a key the blob carries for a provider is after the step still in the
\* blob or is that provider's key in the secure store, and a key the secure
\* store holds stays; so every key the blob carried before the migration is,
\* in every state during and after it, in the blob or in the secure store.
C22_NoKeyLost ==
    [][ \A p \in ProviderNames :
          /\ BlobApiKey(p) # Null =>
                \/ BlobApiKey(p)' = BlobApiKey(p)
                \/ store'[ApiKeyName(p)] = BlobApiKey(p)
          /\ store[ApiKeyName(p)] # Null =>
                store'[ApiKeyName(p)] = store[ApiKeyName(p)] ]_vars

\* C22 witness: the migration failed at mistral after it had saved openai's
\* key; both keys are still in the blob, openai's also in the secure store.
C22_Witness ==
    /\ migPc = "failed"
    /\ store[ApiKeyName("openai")] = Some(KeyOf("openai"))
    /\ store[ApiKeyName("mistral")] = Null
    /\ BlobApiKey("openai") = Some(KeyOf("openai"))
    /\ BlobApiKey("mistral") = Some(KeyOf("mistral"))

----------------------------------------------------------------------------
(* Claims: the provider's startup after a failed read (Spec)               *)

\* C23: when the startup load failed and fell back to the defaults, the run
\* of the save effect that follows it, with the fallback state still in
\* memory, leaves the three security values an earlier session stored as
\* they were.
C23_FailedLoadKeepsStored ==
    [][ ( /\ \A key \in SecurityKeys : store[key] # Null
          /\ loadOutcome = "failed" /\ securityLoaded
          /\ security = DEFAULT_SECURITY
          /\ saveDue /\ ~saveDue' ) =>
              \A key \in SecurityKeys : store'[key] = store[key] ]_vars

----------------------------------------------------------------------------
(* Claims: the lock flag and the session flag (Spec)                       *)

\* C24: in every state security.locked holds only with the session flag
\* absent; a step that sets the flag (unlockApp) ends with locked false, a
\* step that removes it (lockApp) ends with locked true, and outside the
\* startup load locked becomes true only with the flag removed and false only
\* with the flag set.
C24_LockAgreesWithSession ==
    /\ [](security.locked => ~sessionUnlocked)
    /\ [][ /\ (sessionUnlocked' /\ ~sessionUnlocked) => ~security'.locked
           /\ (sessionUnlocked /\ ~sessionUnlocked') => security'.locked
           /\ (loadPc' = loadPc /\ security'.locked /\ ~security.locked) =>
                 ~sessionUnlocked'
           /\ (loadPc' = loadPc /\ security.locked /\ ~security'.locked) =>
                 sessionUnlocked' ]_vars

\* C24 witness: lockApp has locked the app after the load: locked is true
\* though the PIN is none the load would lock for, and the flag is absent.
C24_Witness ==
    /\ loadPc = "done" /\ loadOutcome = "ok"
    /\ security.locked /\ ~sessionUnlocked
    /\ ~IsPinConfigured(security.pin)

----------------------------------------------------------------------------
(* Claims: downloads in flight (SpecUpd)                                   *)

\* C25: while a widget's downloadAndInstall, or the relaunch after it, is
\* pending, the widget is busy and shows no error, so none of its buttons
\* that start a download can be clicked; and every step that starts a download
\* in a widget is taken with none pending in that widget.
C25_OneDownloadPerWidget ==
    /\ [](bDlPc # "idle" =>
            /\ bBusy /\ bError = NoResult
            /\ ~ENABLED BannerClickUpdate /\ ~ENABLED BannerClickRetry)
    /\ [](aDlPc # "idle" =>
            /\ aIsDownloading /\ aInstallError = NoResult
            /\ ~ENABLED AboutClickInstall /\ ~ENABLED AboutClickRetry)
    /\ [][ /\ bCalls'.download # bCalls.download => bDlPc = "idle"
           /\ aCalls'.download # aCalls.download => aDlPc = "idle" ]_vars

\* C25 witness: in each widget a first download has failed and the second,
\* started with Retry, is in flight.
C25_Witness ==
    /\ appRunning
    /\ bCalls.download = 2 /\ bDlPc = "downloading" /\ bBusy
    /\ aCalls.download = 2 /\ aDlPc = "downloading" /\ aIsDownloading

\* C26: the banner's and the modal's downloadAndInstall are never in flight
\* at the same time.
C26_OneDownloadInApplication ==
    ~(appRunning /\ bDlPc = "downloading" /\ aDlPc = "downloading")

====
